---- MODULE Spec2Model ----
(***************************************************************************)
(* RESOLVE capacity-expansion / unit-commitment formulation                *)
(* (src/resolve_code/model_formulation.py).                                *)
(*                                                                         *)
(* The program builds a Pyomo AbstractModel: index sets and parameters are *)
(* constructed in declaration order from the loaded data, validation rules *)
(* abort instance creation, constraint rules are evaluated for every index *)
(* and the instance is handed to an external solver, which returns values  *)
(* for the decision variables that satisfy every constraint.               *)
(*                                                                         *)
(* Quantities the code holds as floats are held here as exact integers or  *)
(* as integer numerator/denominator pairs; every constraint is compared by *)
(* cross-multiplication, so no rounding enters.                            *)
(***************************************************************************)
EXTENDS Integers, Sequences, FiniteSets, TLC

(***************************************************************************)
(* Bounds of the model                                                     *)
(***************************************************************************)
\* timepoints are drawn from 1..MaxTimepoint
MaxTimepoint == 4
\* period[t] is drawn from 1..MaxPeriod
MaxPeriod == 2
\* day[t] is drawn from 1..MaxDay
MaxDay == 2
\* an instance handed to the solver has timepoints 1..N, N <= MaxSolveTimepoint
MaxSolveTimepoint == 3
\* Commit_Units, Start_Units and Shut_Down_Units are drawn from the halves
\* 0, 1/2 .. MaxUnits/2 of a unit
MaxUnits == 1
\* a storage instance handed to the solver has timepoints 1..N,
\* N <= MaxStorageTimepoint
MaxStorageTimepoint == 2
\* Energy_in_Storage_MWh is drawn from -1/2, 0, 1/2 .. MaxEnergyLevel/2 MWh
MaxEnergyLevel == 7
\* the day of the round trip scenario has the hours 1..MaxRoundTripHour
MaxRoundTripHour == 8

\* the timepoints of a reserve instance
MaxReserveTimepoint == 1
\* Param(initialize=24): the number of timepoints of a day, by which the
\* unit commitment lookups wrap; the day of a dispatch instance is scaled to
\* this many hours
timepoints_per_day == 2

VARIABLES
    pc,                      \* the component under construction / run stage
    TIMEPOINTS,              \* Set(domain=PositiveIntegers)
    period,                  \* Param(TIMEPOINTS)
    day,                     \* Param(TIMEPOINTS)
    PERIODS,                 \* Set(initialize=periods_init)
    DAYS,                    \* Set(initialize=days_init)
    first_timepoint_of_day,  \* Param(PERIODS, DAYS)
    last_timepoint_of_day,   \* Param(PERIODS, DAYS)
    previous_timepoint,      \* Param(TIMEPOINTS)
    next_timepoint,          \* Param(TIMEPOINTS)
    Commit_Units,            \* Var(DISPATCHABLE_RESOURCES, TIMEPOINTS)
    Start_Units,             \* Var(DISPATCHABLE_RESOURCES, TIMEPOINTS)
    Shut_Down_Units,         \* Var(DISPATCHABLE_RESOURCES, TIMEPOINTS)
    charging_efficiency,     \* Param(STORAGE_TECHNOLOGIES, within=PercentFraction)
    discharging_efficiency,  \* Param(STORAGE_TECHNOLOGIES, within=PercentFraction)
    reg_dispatch_fraction,   \* Param(within=PercentFraction)
    lf_reserve_dispatch_fraction,      \* Param(within=PercentFraction)
    REGULATION_RESERVE_RESOURCES,      \* Set(filter=can_provide_reg)
    LOAD_FOLLOWING_RESERVE_RESOURCES,  \* Set(filter=can_provide_lf_reserves)
    maintenance_derate,      \* Param(RESOURCES, TIMEPOINTS, within=PercentFraction)
    Total_Storage_Energy_Capacity_MWh, \* Expression(STORAGE_RESOURCES, PERIODS)
    Operational_Capacity_MW, \* Expression(RESOURCES_WITH_MW_CAPACITY, PERIODS)
    Energy_in_Storage_MWh,   \* Var(STORAGE_RESOURCES, TIMEPOINTS)
    Charge_Storage_MW,       \* Var(STORAGE_RESOURCES, TIMEPOINTS)
    Provide_Power_MW,        \* Var(RESOURCES - ..., TIMEPOINTS)
    Provide_Upward_Reg_MW,   \* Var(REGULATION_RESERVE_RESOURCES, TIMEPOINTS)
    Provide_Downward_Reg_MW, \* Var(REGULATION_RESERVE_RESOURCES, TIMEPOINTS)
    Provide_LF_Upward_Reserve_MW,      \* Var(LOAD_FOLLOWING_RESERVE_RESOURCES, TIMEPOINTS)
    Provide_LF_Downward_Reserve_MW,    \* Var(LOAD_FOLLOWING_RESERVE_RESOURCES, TIMEPOINTS)
    input_load_mw,           \* Param(ZONES, TIMEPOINTS, within=Reals)
    allow_unserved_energy,   \* Param(within=Boolean)
    unserved_energy_penalty_per_mw,    \* Param(within=NonNegativeReals)
    overgen_penalty_per_mw,  \* Param(within=NonNegativeReals)
    fuel_burn_intercept_mmbtu_per_hr,  \* Param(THERMAL_TECHNOLOGIES)
    Unserved_Energy_MW,      \* Var(ZONES, TIMEPOINTS, within=NonNegativeReals)
    Overgeneration_MW,       \* Var(ZONES, TIMEPOINTS, within=NonNegativeReals)
    SPINNING_RESERVE_RESOURCES,        \* Set(filter=can_provide_spin)
    TOTAL_FREQ_RESP_RESOURCES,         \* Set(filter=contributes_to_freq_resp_total_req)
    PARTIAL_FREQ_RESP_RESOURCES,       \* Set(filter=contributes_to_freq_resp_partial_req)
    spin_reserve_fraction_of_load,     \* Param(ZONES, within=PercentFraction)
    upward_reg_req,          \* Param(TIMEPOINTS, within=NonNegativeReals)
    downward_reg_req,        \* Param(TIMEPOINTS, within=NonNegativeReals)
    upward_lf_reserve_req,   \* Param(TIMEPOINTS, within=NonNegativeReals)
    downward_lf_reserve_req, \* Param(TIMEPOINTS, within=NonNegativeReals)
    freq_resp_total_req_mw,  \* Param(TIMEPOINTS, within=NonNegativeReals)
    freq_resp_partial_req_mw,          \* Param(TIMEPOINTS, within=NonNegativeReals)
    Provide_Spin_MW,         \* Var(SPINNING_RESERVE_RESOURCES, TIMEPOINTS)
    Provide_Frequency_Response_MW,     \* Var(TOTAL_FREQ_RESP_RESOURCES, TIMEPOINTS)
    Spin_Violation_MW,       \* Var(TIMEPOINTS, within=NonNegativeReals)
    Upward_Reg_Violation_MW, \* Var(TIMEPOINTS, within=NonNegativeReals)
    Downward_Reg_Violation_MW,         \* Var(TIMEPOINTS, within=NonNegativeReals)
    Upward_LF_Reserve_Violation_MW,    \* Var(TIMEPOINTS, within=NonNegativeReals)
    Downward_LF_Reserve_Violation_MW,  \* Var(TIMEPOINTS, within=NonNegativeReals)
    data,                    \* the resource inputs handed to model.create_instance(data)
    prm_memberships,         \* Param(PRM_RESOURCES, initialize=..., validate=...)
    instance,                \* the components of the instance that are constructed
    Build_Capacity_MW,       \* Var(NEW_BUILD_RESOURCES, VINTAGES, within=NonNegativeReals)
    Fully_Deliverable_Installed_Capacity_MW,   \* Var(TX_DELIVERABILITY_RESOURCES, PERIODS)
    Energy_Only_Installed_Capacity_MW,         \* Var(TX_DELIVERABILITY_RESOURCES, PERIODS)
    flexible_params,         \* the rows of flexible_params.csv
    flexible_row             \* the row of flexible_params that is parsed next

timeVars == <<TIMEPOINTS, period, day, PERIODS, DAYS, first_timepoint_of_day,
              last_timepoint_of_day, previous_timepoint, next_timepoint>>

\* the unit commitment decision variables
commitVars == <<Commit_Units, Start_Units, Shut_Down_Units>>

\* the parameters and capacities of the storage resources
storageParams == <<charging_efficiency, discharging_efficiency, reg_dispatch_fraction,
                   lf_reserve_dispatch_fraction, REGULATION_RESERVE_RESOURCES,
                   LOAD_FOLLOWING_RESERVE_RESOURCES, maintenance_derate,
                   Total_Storage_Energy_Capacity_MWh, Operational_Capacity_MW>>

\* the storage dispatch decision variables
storageVars == <<Energy_in_Storage_MWh, Charge_Storage_MW, Provide_Power_MW,
                 Provide_Upward_Reg_MW, Provide_Downward_Reg_MW,
                 Provide_LF_Upward_Reserve_MW, Provide_LF_Downward_Reserve_MW>>

\* the parameters of the zonal power balance and of the objective
dispatchParams == <<input_load_mw, allow_unserved_energy, unserved_energy_penalty_per_mw,
                    overgen_penalty_per_mw, fuel_burn_intercept_mmbtu_per_hr>>

\* the slack variables of the zonal power balance
balanceVars == <<Unserved_Energy_MW, Overgeneration_MW>>

\* the resources and requirements of the operating reserves
reserveParams == <<SPINNING_RESERVE_RESOURCES, TOTAL_FREQ_RESP_RESOURCES,
                   PARTIAL_FREQ_RESP_RESOURCES, spin_reserve_fraction_of_load,
                   upward_reg_req, downward_reg_req, upward_lf_reserve_req,
                   downward_lf_reserve_req, freq_resp_total_req_mw,
                   freq_resp_partial_req_mw>>

\* the reserve decision variables that no storage constraint reads
reserveVars == <<Provide_Spin_MW, Provide_Frequency_Response_MW, Spin_Violation_MW,
                 Upward_Reg_Violation_MW, Downward_Reg_Violation_MW,
                 Upward_LF_Reserve_Violation_MW, Downward_LF_Reserve_Violation_MW>>

\* everything the index builder leaves alone
\* the resource inputs and the planning reserve margin membership built from them
prmVars == <<data, prm_memberships, instance>>

\* the capacity decision variables of the new resources
capacityVars == <<Build_Capacity_MW, Fully_Deliverable_Installed_Capacity_MW,
                  Energy_Only_Installed_Capacity_MW>>

\* the table of flexible parameters and the position in it
flexVars == <<flexible_params, flexible_row>>

nonIndexVars == <<commitVars, storageParams, storageVars, dispatchParams, balanceVars,
                  reserveParams, reserveVars, prmVars, capacityVars, flexVars>>

vars == <<pc, timeVars, nonIndexVars>>

\* a component that has not been constructed yet
NotConstructed == <<>>

\* the decision variables before the solver has given them values
CommitNotSolved ==
    /\ Commit_Units = <<>>
    /\ Start_Units = <<>>
    /\ Shut_Down_Units = <<>>

StorageNotSolved ==
    /\ Energy_in_Storage_MWh = <<>>
    /\ Charge_Storage_MW = <<>>
    /\ Provide_Power_MW = <<>>
    /\ Provide_Upward_Reg_MW = <<>>
    /\ Provide_Downward_Reg_MW = <<>>
    /\ Provide_LF_Upward_Reserve_MW = <<>>
    /\ Provide_LF_Downward_Reserve_MW = <<>>

BalanceNotSolved ==
    /\ Unserved_Energy_MW = <<>>
    /\ Overgeneration_MW = <<>>

ReservesNotSolved ==
    /\ Provide_Spin_MW = <<>>
    /\ Provide_Frequency_Response_MW = <<>>
    /\ Spin_Violation_MW = <<>>
    /\ Upward_Reg_Violation_MW = <<>>
    /\ Downward_Reg_Violation_MW = <<>>
    /\ Upward_LF_Reserve_Violation_MW = <<>>
    /\ Downward_LF_Reserve_Violation_MW = <<>>

\* the capacity variables before a solve
CapacityNotSolved ==
    /\ Build_Capacity_MW = NotConstructed
    /\ Fully_Deliverable_Installed_Capacity_MW = NotConstructed
    /\ Energy_Only_Installed_Capacity_MW = NotConstructed

\* a scenario without a table of flexible parameters
NoFlexible ==
    /\ flexible_params = NotConstructed
    /\ flexible_row = 0

\* a scenario without resource inputs for the planning reserve margin
NoCapacity ==
    /\ data = NotConstructed
    /\ prm_memberships = NotConstructed
    /\ instance = NotConstructed
    /\ CapacityNotSolved

\* an instance without reserve resources and reserve requirements
NoReserves ==
    /\ SPINNING_RESERVE_RESOURCES = {}
    /\ TOTAL_FREQ_RESP_RESOURCES = {}
    /\ PARTIAL_FREQ_RESP_RESOURCES = {}
    /\ spin_reserve_fraction_of_load = <<>>
    /\ upward_reg_req = <<>>
    /\ downward_reg_req = <<>>
    /\ upward_lf_reserve_req = <<>>
    /\ downward_lf_reserve_req = <<>>
    /\ freq_resp_total_req_mw = <<>>
    /\ freq_resp_partial_req_mw = <<>>
    /\ ReservesNotSolved

\* an instance without zones and loads
NoDispatch ==
    /\ input_load_mw = <<>>
    /\ allow_unserved_energy = FALSE
    /\ unserved_energy_penalty_per_mw = <<0, 1>>
    /\ overgen_penalty_per_mw = <<0, 1>>
    /\ fuel_burn_intercept_mmbtu_per_hr = <<>>
    /\ BalanceNotSolved

\* an instance without storage resources
NoStorage ==
    /\ charging_efficiency = <<>>
    /\ discharging_efficiency = <<>>
    /\ reg_dispatch_fraction = <<0, 1>>
    /\ lf_reserve_dispatch_fraction = <<0, 1>>
    /\ REGULATION_RESERVE_RESOURCES = {}
    /\ LOAD_FOLLOWING_RESERVE_RESOURCES = {}
    /\ maintenance_derate = <<>>
    /\ Total_Storage_Energy_Capacity_MWh = <<>>
    /\ Operational_Capacity_MW = <<>>
    /\ StorageNotSolved

(***************************************************************************)
(* Python built-ins used by the rules                                      *)
(***************************************************************************)
\* min(list): defined for a nonempty list only (ValueError otherwise)
Min(S) == CHOOSE x \in S : \A y \in S : x <= y

\* max(list): defined for a nonempty list only (ValueError otherwise)
Max(S) == CHOOSE x \in S : \A y \in S : y <= x

(***************************************************************************)
(* Temporal index builder                                                  *)
(***************************************************************************)
\* periods_init: the unique period values of the timepoints
periods_init == {period[tmp_p] : tmp_p \in TIMEPOINTS}

\* days_init: the unique day values of the timepoints
days_init == {day[tmp_d] : tmp_d \in TIMEPOINTS}

\* a list that collects the timepoints of the day in every period
timepoints_on_day_of_any_period(p, d) == {timepoint \in TIMEPOINTS : day[timepoint] = d}

\* the list timepoints_on_day both first/last rules collect
timepoints_on_day(p, d) ==
    {timepoint \in TIMEPOINTS : period[timepoint] = p /\ day[timepoint] = d}

first_timepoint_of_day_init(p, d) == Min(timepoints_on_day(p, d))

last_timepoint_of_day_init(p, d) == Max(timepoints_on_day(p, d))

\* previous_timepoint_init with the wraparound dropped
previous_timepoint_init_no_wrap ==
    [timepoint \in TIMEPOINTS |-> timepoint - 1]

\* previous_timepoint_init: the first timepoint of a day wraps to that day's last
previous_timepoint_init ==
    [timepoint \in TIMEPOINTS |->
        IF timepoint = first_timepoint_of_day[period[timepoint], day[timepoint]]
        THEN last_timepoint_of_day[period[timepoint], day[timepoint]]
        ELSE timepoint - 1]

\* next_timepoint_init: the last timepoint of a day wraps to that day's first
next_timepoint_init ==
    [timepoint \in TIMEPOINTS |->
        IF timepoint = last_timepoint_of_day[period[timepoint], day[timepoint]]
        THEN first_timepoint_of_day[period[timepoint], day[timepoint]]
        ELSE timepoint + 1]

\* the timepoint data as loaded: any nonempty set of positive integers, each
\* with a period and a day
TimepointData ==
    /\ TIMEPOINTS \in (SUBSET (1..MaxTimepoint)) \ {{}}
    /\ period \in [TIMEPOINTS -> 1..MaxPeriod]
    /\ day \in [TIMEPOINTS -> 1..MaxDay]

IndexNotConstructed ==
    /\ PERIODS = NotConstructed
    /\ DAYS = NotConstructed
    /\ first_timepoint_of_day = NotConstructed
    /\ last_timepoint_of_day = NotConstructed
    /\ previous_timepoint = NotConstructed
    /\ next_timepoint = NotConstructed

Construct_PERIODS ==
    /\ pc = "PERIODS"
    /\ UNCHANGED nonIndexVars
    /\ PERIODS' = periods_init
    /\ pc' = "DAYS"
    /\ UNCHANGED <<TIMEPOINTS, period, day, DAYS, first_timepoint_of_day,
                   last_timepoint_of_day, previous_timepoint, next_timepoint>>

Construct_DAYS ==
    /\ pc = "DAYS"
    /\ UNCHANGED nonIndexVars
    /\ DAYS' = days_init
    /\ pc' = "first_timepoint_of_day"
    /\ UNCHANGED <<TIMEPOINTS, period, day, PERIODS, first_timepoint_of_day,
                   last_timepoint_of_day, previous_timepoint, next_timepoint>>

\* Param(PERIODS, DAYS, initialize=first_timepoint_of_day_init): the rule runs
\* for every pair of the product; min() of an empty list raises
Construct_first_timepoint_of_day ==
    /\ pc = "first_timepoint_of_day"
    /\ UNCHANGED nonIndexVars
    /\ IF \E p \in PERIODS, d \in DAYS : timepoints_on_day(p, d) = {}
       THEN /\ pc' = "error"
            /\ UNCHANGED first_timepoint_of_day
       ELSE /\ first_timepoint_of_day' =
                  [pd \in PERIODS \X DAYS |-> first_timepoint_of_day_init(pd[1], pd[2])]
            /\ pc' = "last_timepoint_of_day"
    /\ UNCHANGED <<TIMEPOINTS, period, day, PERIODS, DAYS,
                   last_timepoint_of_day, previous_timepoint, next_timepoint>>

Construct_last_timepoint_of_day ==
    /\ pc = "last_timepoint_of_day"
    /\ UNCHANGED nonIndexVars
    /\ IF \E p \in PERIODS, d \in DAYS : timepoints_on_day(p, d) = {}
       THEN /\ pc' = "error"
            /\ UNCHANGED last_timepoint_of_day
       ELSE /\ last_timepoint_of_day' =
                  [pd \in PERIODS \X DAYS |-> last_timepoint_of_day_init(pd[1], pd[2])]
            /\ pc' = "previous_timepoint"
    /\ UNCHANGED <<TIMEPOINTS, period, day, PERIODS, DAYS,
                   first_timepoint_of_day, previous_timepoint, next_timepoint>>

Construct_previous_timepoint ==
    /\ pc = "previous_timepoint"
    /\ UNCHANGED nonIndexVars
    /\ previous_timepoint' = previous_timepoint_init
    /\ pc' = "next_timepoint"
    /\ UNCHANGED <<TIMEPOINTS, period, day, PERIODS, DAYS,
                   first_timepoint_of_day, last_timepoint_of_day, next_timepoint>>

Construct_next_timepoint ==
    /\ pc = "next_timepoint"
    /\ UNCHANGED nonIndexVars
    /\ next_timepoint' = next_timepoint_init
    /\ pc' = "indexed"
    /\ UNCHANGED <<TIMEPOINTS, period, day, PERIODS, DAYS,
                   first_timepoint_of_day, last_timepoint_of_day, previous_timepoint>>

\* the six steps of the index builder, in declaration order
BuildIndex ==
    \/ Construct_PERIODS
    \/ Construct_DAYS
    \/ Construct_first_timepoint_of_day
    \/ Construct_last_timepoint_of_day
    \/ Construct_previous_timepoint
    \/ Construct_next_timepoint

(***************************************************************************)
(* Specification of the temporal index builder                             *)
(***************************************************************************)
Init ==
    /\ pc = "PERIODS"
    /\ TimepointData
    /\ IndexNotConstructed
    /\ CommitNotSolved
    /\ NoStorage
    /\ NoDispatch
    /\ NoReserves
    /\ NoCapacity
    /\ NoFlexible

Next == BuildIndex

Spec == Init /\ [][Next]_vars

\* the temporal index is complete
Indexed == pc \in {"indexed", "solve", "solved"}

\* the timepoints of the (period, day) pair of timepoint t
SameDay(t) == {u \in TIMEPOINTS : period[u] = period[t] /\ day[u] = day[t]}

\* t is the earliest / the latest timepoint of its (period, day) pair
IsFirstOfDay(t) == \A u \in SameDay(t) : t <= u
IsLastOfDay(t) == \A u \in SameDay(t) : u <= t

(***************************************************************************)
(* C1: once the index is built, in every (period, day) pair the next       *)
(* timepoint of the day's last timepoint is the day's first timepoint and  *)
(* the previous timepoint of the first is the last; every timepoint that   *)
(* is not the last of its day has next_timepoint t+1 and every timepoint   *)
(* that is not the first of its day has previous_timepoint t-1.            *)
(***************************************************************************)
C1_CircularTimepoints ==
    Indexed =>
        /\ \A p \in PERIODS, d \in DAYS :
              \E f \in timepoints_on_day(p, d), l \in timepoints_on_day(p, d) :
                  /\ IsFirstOfDay(f)
                  /\ IsLastOfDay(l)
                  /\ next_timepoint[l] = f
                  /\ previous_timepoint[f] = l
        /\ \A t \in TIMEPOINTS :
              /\ ~IsLastOfDay(t) => next_timepoint[t] = t + 1
              /\ ~IsFirstOfDay(t) => previous_timepoint[t] = t - 1

\* an indexed instance with two days, one of them of three timepoints, so
\* that both the wraparound and the interior case occur
C1_Witness ==
    /\ Indexed
    /\ Cardinality(PERIODS \X DAYS) >= 2
    /\ \E t \in TIMEPOINTS :
          /\ ~IsFirstOfDay(t) /\ ~IsLastOfDay(t)
          /\ previous_timepoint[t] = t - 1
    /\ \E t \in TIMEPOINTS :
          IsFirstOfDay(t) /\ previous_timepoint[t] > t

(***************************************************************************)
(* Constraints                                                             *)
(***************************************************************************)
\* the relational expression a constraint rule returns
Relation(l, s, r) == [lhs |-> l, sense |-> s, rhs |-> r]

\* Constraint.Skip: no constraint is generated for the index
Skip == [lhs |-> 0, sense |-> "Skip", rhs |-> 0]

\* f with the value v given to the new index k
Extend(f, k, v) == [x \in (DOMAIN f) \cup {k} |-> IF x = k THEN v ELSE f[x]]

\* the timepoints 1..n, n <= N, numbered consecutively, (period, day) pair
\* after pair, as the index builder's docstrings assume ("Assumes timepoints
\* are ordered")
OrderedTimepoints(N) ==
    /\ \E n \in 1..N : TIMEPOINTS = 1..n
    /\ period \in [TIMEPOINTS -> 1..MaxPeriod]
    /\ day \in [TIMEPOINTS -> 1..MaxDay]
    /\ period[1] = 1 /\ day[1] = 1
    /\ \A t \in TIMEPOINTS \ {1} :
          \/ period[t] = period[t - 1] /\ day[t] = day[t - 1]
          \/ period[t] = period[t - 1] /\ day[t] = day[t - 1] + 1
          \/ period[t] = period[t - 1] + 1 /\ day[t] = 1

OrderedTimepointData == OrderedTimepoints(MaxSolveTimepoint)

\* exact arithmetic on the real-valued parameters and variables: a value is
\* a fraction <<numerator, denominator>> with a positive denominator.  Each
\* operator binds its operands (p[1], p[2]) so that they are evaluated once.
Q(x) == <<x, 1>>
RECURSIVE GCD(_, _)
GCD(a, b) ==
    CHOOSE r \in {IF p[2] = 0 THEN p[1] ELSE GCD(p[2], p[1] % p[2]) : p \in {<<a, b>>}} : TRUE
\* the fraction q in lowest terms
Reduce(q) ==
    CHOOSE r \in {<<x[1][1] \div x[2], x[1][2] \div x[2]>> :
                     x \in {<<p, GCD(IF p[1] < 0 THEN 0 - p[1] ELSE p[1], p[2])>> : p \in {q}}} : TRUE
QAdd(a, b) ==
    CHOOSE r \in {Reduce(<<p[1][1] * p[2][2] + p[2][1] * p[1][2], p[1][2] * p[2][2]>>) :
                     p \in {<<a, b>>}} : TRUE
QSub(a, b) ==
    CHOOSE r \in {Reduce(<<p[1][1] * p[2][2] - p[2][1] * p[1][2], p[1][2] * p[2][2]>>) :
                     p \in {<<a, b>>}} : TRUE
QMul(a, b) ==
    CHOOSE r \in {Reduce(<<p[1][1] * p[2][1], p[1][2] * p[2][2]>>) : p \in {<<a, b>>}} : TRUE
\* a / b for b > 0
QDiv(a, b) ==
    CHOOSE r \in {Reduce(<<p[1][1] * p[2][2], p[1][2] * p[2][1]>>) : p \in {<<a, b>>}} : TRUE
QEq(a, b) == \E p \in {<<a, b>>} : p[1][1] * p[2][2] = p[2][1] * p[1][2]
QLe(a, b) == \E p \in {<<a, b>>} : p[1][1] * p[2][2] <= p[2][1] * p[1][2]

\* whether the current variable values satisfy a generated constraint over
\* real-valued expressions
HoldsQ(c) ==
    \E g \in {c} :
       CASE g.sense = "==" -> QEq(g.lhs, g.rhs)
         [] g.sense = "<=" -> QLe(g.lhs, g.rhs)
         [] g.sense = ">=" -> QLe(g.rhs, g.lhs)
         [] g.sense = "Skip" -> TRUE

(***************************************************************************)
(* Unit commitment                                                         *)
(***************************************************************************)
\* the dispatchable (thermal, not must-run) resources of the instance
DISPATCHABLE_RESOURCES == {"gas_ct"}

\* the values of the decision variables, as a rule's argument `model`
Solution ==
    [Commit_Units |-> Commit_Units,
     Start_Units |-> Start_Units,
     Shut_Down_Units |-> Shut_Down_Units,
     Provide_Power_MW |-> Provide_Power_MW,
     Charge_Storage_MW |-> Charge_Storage_MW,
     Provide_Upward_Reg_MW |-> Provide_Upward_Reg_MW,
     Provide_Downward_Reg_MW |-> Provide_Downward_Reg_MW,
     Provide_LF_Upward_Reserve_MW |-> Provide_LF_Upward_Reserve_MW,
     Provide_LF_Downward_Reserve_MW |-> Provide_LF_Downward_Reserve_MW,
     Unserved_Energy_MW |-> Unserved_Energy_MW,
     Overgeneration_MW |-> Overgeneration_MW]

\* the rule without the units that shut down
commitment_tracking_rule_without_shut_down(model, resource, timepoint) ==
    Relation(model.Commit_Units[resource, timepoint],
             "==",
             QAdd(model.Commit_Units[resource, previous_timepoint[timepoint]],
                  model.Start_Units[resource, timepoint]))

\* the rule with starts and shutdowns exchanged
commitment_tracking_rule_swapped(model, resource, timepoint) ==
    Relation(model.Commit_Units[resource, timepoint],
             "==",
             QAdd(QSub(model.Commit_Units[resource, previous_timepoint[timepoint]],
                       model.Start_Units[resource, timepoint]),
                  model.Shut_Down_Units[resource, timepoint]))

dispatchable_resource_commitment_tracking_rule(model, resource, timepoint) ==
    Relation(model.Commit_Units[resource, timepoint],
             "==",
             QSub(QAdd(model.Commit_Units[resource, previous_timepoint[timepoint]],
                       model.Start_Units[resource, timepoint]),
                  model.Shut_Down_Units[resource, timepoint]))

\* Constraint(DISPATCHABLE_RESOURCES, TIMEPOINTS, rule=...): the rule runs for
\* every index; Commit_Units[resource, previous_timepoint[t]] raises KeyError
\* when previous_timepoint[t] is no timepoint
Construct_Commitment_Tracking_Constraint ==
    /\ pc = "indexed"
    /\ pc' = IF \A t \in TIMEPOINTS : previous_timepoint[t] \in TIMEPOINTS
             THEN "solve" ELSE "error"
    /\ UNCHANGED <<timeVars, nonIndexVars>>

\* the values the solver may give the commitment variables: halves of a unit
UnitLevels == {<<k, 2>> : k \in 0..MaxUnits}

\* the timepoints whose commitment variables the solver has given values
CommitAssigned(resource) ==
    {t \in TIMEPOINTS : <<resource, t>> \in DOMAIN Commit_Units}

\* The solver gives the commitment variables of one more timepoint values of
\* their domain (NonNegativeReals); an answer violating a generated constraint
\* is never returned, so a partial answer that violates one is dropped.
Solve_Commitment ==
    /\ pc = "solve"
    /\ UNCHANGED <<timeVars, storageParams, storageVars, dispatchParams, balanceVars,
                   reserveParams, reserveVars, prmVars, capacityVars, flexVars>>
    /\ \E resource \in DISPATCHABLE_RESOURCES, timepoint \in TIMEPOINTS :
          /\ timepoint \notin CommitAssigned(resource)
          /\ \A u \in TIMEPOINTS : u < timepoint => u \in CommitAssigned(resource)
          /\ \E commit \in UnitLevels, start \in UnitLevels, shut \in UnitLevels :
                /\ Commit_Units' = Extend(Commit_Units, <<resource, timepoint>>, commit)
                /\ Start_Units' = Extend(Start_Units, <<resource, timepoint>>, start)
                /\ Shut_Down_Units' = Extend(Shut_Down_Units, <<resource, timepoint>>, shut)
          /\ \A u \in TIMEPOINTS :
                (u <= timepoint /\ previous_timepoint[u] <= timepoint)
                    => HoldsQ(dispatchable_resource_commitment_tracking_rule(
                                  Solution, resource, u))'
          /\ pc' = IF \A r \in DISPATCHABLE_RESOURCES, u \in TIMEPOINTS :
                        <<r, u>> \in DOMAIN Commit_Units'
                   THEN "solved" ELSE "solve"

(***************************************************************************)
(* Specification of the commitment tracking constraint: index construction,*)
(* constraint generation, solve                                            *)
(***************************************************************************)
InitCommit ==
    /\ pc = "PERIODS"
    /\ OrderedTimepointData
    /\ IndexNotConstructed
    /\ CommitNotSolved
    /\ NoStorage
    /\ NoDispatch
    /\ NoReserves
    /\ NoCapacity
    /\ NoFlexible

NextCommit ==
    \/ BuildIndex
    \/ Construct_Commitment_Tracking_Constraint
    \/ Solve_Commitment

SpecCommit == InitCommit /\ [][NextCommit]_vars

\* the timepoint before t in the cycle of the timepoints of t's (period, day)
CircularPredecessor(t) ==
    IF \E u \in SameDay(t) : u < t
    THEN CHOOSE u \in SameDay(t) : u < t /\ \A w \in SameDay(t) : w < t => w <= u
    ELSE CHOOSE u \in SameDay(t) : \A w \in SameDay(t) : w <= u

(***************************************************************************)
(* C2: in every solution the solver returns, for every dispatchable        *)
(* resource and timepoint t, Commit_Units[t] minus Commit_Units at the     *)
(* circular within-day predecessor of t (the last timepoint of the same    *)
(* day for the day's first timepoint) equals Start_Units[t] minus          *)
(* Shut_Down_Units[t].                                                     *)
(***************************************************************************)
C2_CommitmentConservation ==
    pc = "solved" =>
        \A r \in DISPATCHABLE_RESOURCES, t \in TIMEPOINTS :
            QEq(QSub(Commit_Units[r, t], Commit_Units[r, CircularPredecessor(t)]),
                QSub(Start_Units[r, t], Shut_Down_Units[r, t]))

\* a solution over two days in which units start at the first timepoint of a
\* day of two timepoints, relative to the commitment at that day's last one
C2_Witness ==
    /\ pc = "solved"
    /\ Cardinality(PERIODS \X DAYS) = 2
    /\ \E r \in DISPATCHABLE_RESOURCES, t \in TIMEPOINTS :
          /\ IsFirstOfDay(t) /\ ~IsLastOfDay(t)
          /\ ~QLe(Start_Units[r, t], Q(0))
          /\ ~QLe(Commit_Units[r, t], Commit_Units[r, CircularPredecessor(t)])
          /\ CircularPredecessor(t) > t


(***************************************************************************)
(* Storage                                                                 *)
(***************************************************************************)
\* the storage resources of the instance and their technology
STORAGE_RESOURCES == {"battery"}
technology ==
    [r \in STORAGE_RESOURCES \cup DISPATCHABLE_RESOURCES |->
        IF r \in STORAGE_RESOURCES THEN "li_ion" ELSE "ct"]
STORAGE_TECHNOLOGIES == {technology[r] : r \in STORAGE_RESOURCES}

available_capacity_def(resource, timepoint) ==
    QMul(Q(Operational_Capacity_MW[resource, period[timepoint]]),
         maintenance_derate[resource, timepoint])

storage_discharge_rule(storage_resource, timepoint) ==
    Relation(Provide_Power_MW[storage_resource, timepoint],
             "<=",
             available_capacity_def(storage_resource, timepoint))

storage_charge_rule(storage_resource, timepoint) ==
    Relation(Charge_Storage_MW[storage_resource, timepoint],
             "<=",
             available_capacity_def(storage_resource, timepoint))

\* the rule without the maintenance derate
storage_energy_rule_no_derate(storage_resource, timepoint) ==
    Relation(Energy_in_Storage_MWh[storage_resource, timepoint],
             "<=",
             Q(Total_Storage_Energy_Capacity_MWh[storage_resource, period[timepoint]]))

storage_energy_rule(storage_resource, timepoint) ==
    Relation(Energy_in_Storage_MWh[storage_resource, timepoint],
             "<=",
             QMul(Q(Total_Storage_Energy_Capacity_MWh[storage_resource, period[timepoint]]),
                  maintenance_derate[storage_resource, timepoint]))

\* the rule with the discharge multiplied by the discharging efficiency
storage_energy_tracking_rule_times(storage_resource, timepoint) ==
    LET charging_mwh_0 == Charge_Storage_MW[storage_resource, timepoint]
        discharging_mwh_0 == Provide_Power_MW[storage_resource, timepoint]
        \* Regulation reserve dispatch
        charging_mwh_1 ==
            IF storage_resource \in REGULATION_RESERVE_RESOURCES
            THEN QAdd(charging_mwh_0,
                      QMul(Provide_Downward_Reg_MW[storage_resource, timepoint],
                           reg_dispatch_fraction))
            ELSE charging_mwh_0
        discharging_mwh_1 ==
            IF storage_resource \in REGULATION_RESERVE_RESOURCES
            THEN QAdd(discharging_mwh_0,
                      QMul(Provide_Upward_Reg_MW[storage_resource, timepoint],
                           reg_dispatch_fraction))
            ELSE discharging_mwh_0
        \* Load-following reserve dispatch
        charging_mwh ==
            IF storage_resource \in LOAD_FOLLOWING_RESERVE_RESOURCES
            THEN QAdd(charging_mwh_1,
                      QMul(Provide_LF_Downward_Reserve_MW[storage_resource, timepoint],
                           lf_reserve_dispatch_fraction))
            ELSE charging_mwh_1
        discharging_mwh ==
            IF storage_resource \in LOAD_FOLLOWING_RESERVE_RESOURCES
            THEN QAdd(discharging_mwh_1,
                      QMul(Provide_LF_Upward_Reserve_MW[storage_resource, timepoint],
                           lf_reserve_dispatch_fraction))
            ELSE discharging_mwh_1
    IN  Relation(Energy_in_Storage_MWh[storage_resource, next_timepoint[timepoint]],
                 "==",
                 QSub(QAdd(Energy_in_Storage_MWh[storage_resource, timepoint],
                           QMul(charging_mwh,
                                charging_efficiency[technology[storage_resource]])),
                      QMul(discharging_mwh,
                           discharging_efficiency[technology[storage_resource]])))

\* the rule with the charge stored without loss
storage_energy_tracking_rule_no_charging_loss(storage_resource, timepoint) ==
    LET charging_mwh_0 == Charge_Storage_MW[storage_resource, timepoint]
        discharging_mwh_0 == Provide_Power_MW[storage_resource, timepoint]
        \* Regulation reserve dispatch
        charging_mwh_1 ==
            IF storage_resource \in REGULATION_RESERVE_RESOURCES
            THEN QAdd(charging_mwh_0,
                      QMul(Provide_Downward_Reg_MW[storage_resource, timepoint],
                           reg_dispatch_fraction))
            ELSE charging_mwh_0
        discharging_mwh_1 ==
            IF storage_resource \in REGULATION_RESERVE_RESOURCES
            THEN QAdd(discharging_mwh_0,
                      QMul(Provide_Upward_Reg_MW[storage_resource, timepoint],
                           reg_dispatch_fraction))
            ELSE discharging_mwh_0
        \* Load-following reserve dispatch
        charging_mwh ==
            IF storage_resource \in LOAD_FOLLOWING_RESERVE_RESOURCES
            THEN QAdd(charging_mwh_1,
                      QMul(Provide_LF_Downward_Reserve_MW[storage_resource, timepoint],
                           lf_reserve_dispatch_fraction))
            ELSE charging_mwh_1
        discharging_mwh ==
            IF storage_resource \in LOAD_FOLLOWING_RESERVE_RESOURCES
            THEN QAdd(discharging_mwh_1,
                      QMul(Provide_LF_Upward_Reserve_MW[storage_resource, timepoint],
                           lf_reserve_dispatch_fraction))
            ELSE discharging_mwh_1
    IN  Relation(Energy_in_Storage_MWh[storage_resource, next_timepoint[timepoint]],
                 "==",
                 QSub(QAdd(Energy_in_Storage_MWh[storage_resource, timepoint],
                           charging_mwh),
                      QDiv(discharging_mwh,
                           discharging_efficiency[technology[storage_resource]])))

storage_energy_tracking_rule(storage_resource, timepoint) ==
    LET charging_mwh_0 == Charge_Storage_MW[storage_resource, timepoint]
        discharging_mwh_0 == Provide_Power_MW[storage_resource, timepoint]
        \* Regulation reserve dispatch
        charging_mwh_1 ==
            IF storage_resource \in REGULATION_RESERVE_RESOURCES
            THEN QAdd(charging_mwh_0,
                      QMul(Provide_Downward_Reg_MW[storage_resource, timepoint],
                           reg_dispatch_fraction))
            ELSE charging_mwh_0
        discharging_mwh_1 ==
            IF storage_resource \in REGULATION_RESERVE_RESOURCES
            THEN QAdd(discharging_mwh_0,
                      QMul(Provide_Upward_Reg_MW[storage_resource, timepoint],
                           reg_dispatch_fraction))
            ELSE discharging_mwh_0
        \* Load-following reserve dispatch
        charging_mwh ==
            IF storage_resource \in LOAD_FOLLOWING_RESERVE_RESOURCES
            THEN QAdd(charging_mwh_1,
                      QMul(Provide_LF_Downward_Reserve_MW[storage_resource, timepoint],
                           lf_reserve_dispatch_fraction))
            ELSE charging_mwh_1
        discharging_mwh ==
            IF storage_resource \in LOAD_FOLLOWING_RESERVE_RESOURCES
            THEN QAdd(discharging_mwh_1,
                      QMul(Provide_LF_Upward_Reserve_MW[storage_resource, timepoint],
                           lf_reserve_dispatch_fraction))
            ELSE discharging_mwh_1
    IN  Relation(Energy_in_Storage_MWh[storage_resource, next_timepoint[timepoint]],
                 "==",
                 QSub(QAdd(Energy_in_Storage_MWh[storage_resource, timepoint],
                           QMul(charging_mwh,
                                charging_efficiency[technology[storage_resource]])),
                      QDiv(discharging_mwh,
                           discharging_efficiency[technology[storage_resource]])))

storage_upward_reserve_power_rule(storage_resource, timepoint) ==
    IF \/ storage_resource \in LOAD_FOLLOWING_RESERVE_RESOURCES
       \/ storage_resource \in REGULATION_RESERVE_RESOURCES
       \/ storage_resource \in SPINNING_RESERVE_RESOURCES
       \/ storage_resource \in TOTAL_FREQ_RESP_RESOURCES
    THEN LET upward_reg ==
                 IF storage_resource \in REGULATION_RESERVE_RESOURCES
                 THEN Provide_Upward_Reg_MW[storage_resource, timepoint] ELSE Q(0)
             upward_lf_reserves ==
                 IF storage_resource \in LOAD_FOLLOWING_RESERVE_RESOURCES
                 THEN Provide_LF_Upward_Reserve_MW[storage_resource, timepoint] ELSE Q(0)
             spin ==
                 IF storage_resource \in SPINNING_RESERVE_RESOURCES
                 THEN Provide_Spin_MW[storage_resource, timepoint] ELSE Q(0)
             frequency_response ==
                 IF storage_resource \in TOTAL_FREQ_RESP_RESOURCES
                 THEN Provide_Frequency_Response_MW[storage_resource, timepoint] ELSE Q(0)
         IN  Relation(QAdd(QAdd(QAdd(upward_reg, upward_lf_reserves), spin),
                           frequency_response),
                      "<=",
                      QAdd(QSub(Q(Operational_Capacity_MW[storage_resource,
                                                          period[timepoint]]),
                                Provide_Power_MW[storage_resource, timepoint]),
                           Charge_Storage_MW[storage_resource, timepoint]))
    ELSE Skip

storage_downward_reserve_power_rule(storage_resource, timepoint) ==
    IF \/ storage_resource \in LOAD_FOLLOWING_RESERVE_RESOURCES
       \/ storage_resource \in REGULATION_RESERVE_RESOURCES
    THEN LET downward_reg ==
                 IF storage_resource \in REGULATION_RESERVE_RESOURCES
                 THEN Provide_Downward_Reg_MW[storage_resource, timepoint] ELSE Q(0)
             downward_lf_reserves ==
                 IF storage_resource \in LOAD_FOLLOWING_RESERVE_RESOURCES
                 THEN Provide_LF_Downward_Reserve_MW[storage_resource, timepoint] ELSE Q(0)
         IN  Relation(QAdd(downward_reg, downward_lf_reserves),
                      "<=",
                      QAdd(QSub(Q(Operational_Capacity_MW[storage_resource,
                                                          period[timepoint]]),
                                Charge_Storage_MW[storage_resource, timepoint]),
                           Provide_Power_MW[storage_resource, timepoint]))
    ELSE Skip

storage_upward_reserve_energy_rule(storage_resource, timepoint) ==
    IF \/ storage_resource \in LOAD_FOLLOWING_RESERVE_RESOURCES
       \/ storage_resource \in REGULATION_RESERVE_RESOURCES
       \/ storage_resource \in SPINNING_RESERVE_RESOURCES
    THEN LET upward_reg ==
                 IF storage_resource \in REGULATION_RESERVE_RESOURCES
                 THEN Provide_Upward_Reg_MW[storage_resource, timepoint] ELSE Q(0)
             upward_lf_reserves ==
                 IF storage_resource \in LOAD_FOLLOWING_RESERVE_RESOURCES
                 THEN Provide_LF_Upward_Reserve_MW[storage_resource, timepoint] ELSE Q(0)
             spin ==
                 IF storage_resource \in SPINNING_RESERVE_RESOURCES
                 THEN Provide_Spin_MW[storage_resource, timepoint] ELSE Q(0)
         IN  Relation(QSub(QAdd(QAdd(QAdd(Provide_Power_MW[storage_resource, timepoint],
                                          upward_reg),
                                     upward_lf_reserves),
                                spin),
                           Charge_Storage_MW[storage_resource, timepoint]),
                      "<=",
                      QMul(Energy_in_Storage_MWh[storage_resource, timepoint],
                           discharging_efficiency[technology[storage_resource]]))
    ELSE Skip

storage_downward_reserve_energy_rule(storage_resource, timepoint) ==
    IF \/ storage_resource \in LOAD_FOLLOWING_RESERVE_RESOURCES
       \/ storage_resource \in REGULATION_RESERVE_RESOURCES
    THEN LET downward_reg ==
                 IF storage_resource \in REGULATION_RESERVE_RESOURCES
                 THEN Provide_Downward_Reg_MW[storage_resource, timepoint] ELSE Q(0)
             downward_lf_reserves ==
                 IF storage_resource \in LOAD_FOLLOWING_RESERVE_RESOURCES
                 THEN Provide_LF_Downward_Reserve_MW[storage_resource, timepoint] ELSE Q(0)
         IN  Relation(QSub(QAdd(QAdd(Charge_Storage_MW[storage_resource, timepoint],
                                     downward_reg),
                                downward_lf_reserves),
                           Provide_Power_MW[storage_resource, timepoint]),
                      "<=",
                      QDiv(QSub(Q(Total_Storage_Energy_Capacity_MWh[storage_resource,
                                                                    period[timepoint]]),
                                Energy_in_Storage_MWh[storage_resource, timepoint]),
                           charging_efficiency[technology[storage_resource]]))
    ELSE Skip


\* the domain of the storage variables
NonNegativeReals(x) == QLe(Q(0), x)

\* the parameter values of a storage instance: the energy capacity grows by
\* 1 MWh per period, the maintenance derate is the same in every timepoint
StorageData ==
    /\ \E e \in {<<<<1, 1>>, <<1, 1>>>>, <<<<1, 2>>, <<1, 2>>>>, <<<<1, 2>>, <<1, 1>>>>} :
          /\ charging_efficiency = [g \in STORAGE_TECHNOLOGIES |-> e[1]]
          /\ discharging_efficiency = [g \in STORAGE_TECHNOLOGIES |-> e[2]]
    /\ reg_dispatch_fraction = <<1, 2>>
    /\ lf_reserve_dispatch_fraction = <<1, 1>>
    /\ REGULATION_RESERVE_RESOURCES \in SUBSET STORAGE_RESOURCES
    /\ LOAD_FOLLOWING_RESERVE_RESOURCES \in SUBSET REGULATION_RESERVE_RESOURCES
    /\ \E m \in {<<1, 2>>, <<1, 1>>} :
          maintenance_derate = [i \in STORAGE_RESOURCES \X TIMEPOINTS |-> m]
    /\ Total_Storage_Energy_Capacity_MWh
          = [i \in STORAGE_RESOURCES \X {period[t] : t \in TIMEPOINTS} |-> 1 + i[2]]
    /\ Operational_Capacity_MW
          = [i \in STORAGE_RESOURCES \X {period[t] : t \in TIMEPOINTS} |-> 2]

\* the values the solver may give Energy_in_Storage_MWh ...
StorageEnergyLevels == {<<k, 2>> : k \in (0 - 1)..MaxEnergyLevel}

\* ... and the dispatch variables of one timepoint: idle, charging 2 MW,
\* discharging 1 MW or one reserve award of 1 MW
StorageDispatchOptions ==
    {d \in [charge : {Q(0), Q(2)}, power : {Q(0), Q(1)},
            up_reg : {Q(0), Q(1)}, down_reg : {Q(0), Q(1)},
            lf_up : {Q(0), Q(1)}, lf_down : {Q(0), Q(1)}] :
        Cardinality({f \in DOMAIN d : d[f] # Q(0)}) <= 1}

\* the constraints are generated once the index is built
Construct_Storage_Constraints ==
    /\ pc = "indexed"
    /\ pc' = IF \A t \in TIMEPOINTS : next_timepoint[t] \in TIMEPOINTS
             THEN "solve" ELSE "error"
    /\ UNCHANGED <<timeVars, nonIndexVars>>

StorageAssigned(storage_resource) ==
    {t \in TIMEPOINTS : <<storage_resource, t>> \in DOMAIN Energy_in_Storage_MWh}

\* every storage constraint generated for (storage_resource, timepoint)
\* whose variables all have values
StorageConstraintsHold(storage_resource, timepoint) ==
    /\ \A u \in StorageAssigned(storage_resource) :
          (u <= timepoint /\ next_timepoint[u] <= timepoint)
             => HoldsQ(storage_energy_tracking_rule(storage_resource, u))
    /\ NonNegativeReals(Energy_in_Storage_MWh[storage_resource, timepoint])
    /\ HoldsQ(storage_energy_rule(storage_resource, timepoint))
    /\ HoldsQ(storage_discharge_rule(storage_resource, timepoint))
    /\ HoldsQ(storage_charge_rule(storage_resource, timepoint))
    /\ HoldsQ(storage_upward_reserve_power_rule(storage_resource, timepoint))
    /\ HoldsQ(storage_downward_reserve_power_rule(storage_resource, timepoint))
    /\ HoldsQ(storage_upward_reserve_energy_rule(storage_resource, timepoint))
    /\ HoldsQ(storage_downward_reserve_energy_rule(storage_resource, timepoint))

\* the storage variables of (storage_resource, timepoint) get the values e
\* (energy) and d (dispatch and reserve awards), which satisfy the constraints
Assign_Storage(storage_resource, timepoint, e, d) ==
    LET i == <<storage_resource, timepoint>>
        reg == storage_resource \in REGULATION_RESERVE_RESOURCES
        lf == storage_resource \in LOAD_FOLLOWING_RESERVE_RESOURCES
    IN  /\ reg \/ (d.up_reg = Q(0) /\ d.down_reg = Q(0))
        /\ lf \/ (d.lf_up = Q(0) /\ d.lf_down = Q(0))
        /\ Energy_in_Storage_MWh' = Extend(Energy_in_Storage_MWh, i, e)
        /\ Charge_Storage_MW' = Extend(Charge_Storage_MW, i, d.charge)
        /\ Provide_Power_MW' = Extend(Provide_Power_MW, i, d.power)
        /\ Provide_Upward_Reg_MW' =
              IF reg THEN Extend(Provide_Upward_Reg_MW, i, d.up_reg)
              ELSE Provide_Upward_Reg_MW
        /\ Provide_Downward_Reg_MW' =
              IF reg THEN Extend(Provide_Downward_Reg_MW, i, d.down_reg)
              ELSE Provide_Downward_Reg_MW
        /\ Provide_LF_Upward_Reserve_MW' =
              IF lf THEN Extend(Provide_LF_Upward_Reserve_MW, i, d.lf_up)
              ELSE Provide_LF_Upward_Reserve_MW
        /\ Provide_LF_Downward_Reserve_MW' =
              IF lf THEN Extend(Provide_LF_Downward_Reserve_MW, i, d.lf_down)
              ELSE Provide_LF_Downward_Reserve_MW
        /\ StorageConstraintsHold(storage_resource, timepoint)'
        /\ pc' = IF \A r \in STORAGE_RESOURCES : StorageAssigned(r)' = TIMEPOINTS
                 THEN "solved" ELSE "solve"

\* the solver gives the storage variables of the next timepoint values that
\* satisfy the constraints
Solve_Storage ==
    /\ pc = "solve"
    /\ UNCHANGED <<timeVars, commitVars, storageParams, dispatchParams, balanceVars,
                   reserveParams, reserveVars, prmVars, capacityVars, flexVars>>
    /\ \E storage_resource \in STORAGE_RESOURCES :
          /\ StorageAssigned(storage_resource) # TIMEPOINTS
          /\ \E timepoint \in {Min(TIMEPOINTS \ StorageAssigned(storage_resource))} :
                \E e \in StorageEnergyLevels, d \in StorageDispatchOptions :
                   Assign_Storage(storage_resource, timepoint, e, d)

InitStorage ==
    /\ pc = "PERIODS"
    /\ OrderedTimepoints(MaxStorageTimepoint)
    /\ IndexNotConstructed
    /\ CommitNotSolved
    /\ StorageData
    /\ StorageNotSolved
    /\ NoDispatch
    /\ NoReserves
    /\ NoCapacity
    /\ NoFlexible

NextStorage ==
    \/ BuildIndex
    \/ Construct_Storage_Constraints
    \/ Solve_Storage

SpecStorage == InitStorage /\ [][NextStorage]_vars


\* the timepoint after t on t's (period, day), wrapping from the last
\* timepoint of the day to the first
CircularSuccessor(t) ==
    IF \E u \in SameDay(t) : u > t
    THEN CHOOSE u \in SameDay(t) : u > t /\ \A w \in SameDay(t) : w > t => u <= w
    ELSE CHOOSE u \in SameDay(t) : \A w \in SameDay(t) : u <= w

\* the value at index i of a reserve variable that exists for members only
Awarded(var, members, i) == IF i[1] \in members THEN var[i] ELSE Q(0)

\* C3: in every solution, for every storage resource and timepoint t, the
\* energy in storage at the circular within-day successor of t equals the
\* energy at t plus charging times the charging efficiency minus discharging
\* divided by the discharging efficiency, where charging (discharging) is
\* the base charge (dispatch) plus the dispatch fractions of the awarded
\* downward (upward) regulation and load-following reserve
C3_StorageEnergyTracking ==
    pc = "solved" =>
        \A r \in STORAGE_RESOURCES : \A t \in TIMEPOINTS :
            LET i == <<r, t>>
                charging ==
                    QAdd(Charge_Storage_MW[i],
                         QAdd(QMul(reg_dispatch_fraction,
                                   Awarded(Provide_Downward_Reg_MW,
                                           REGULATION_RESERVE_RESOURCES, i)),
                              QMul(lf_reserve_dispatch_fraction,
                                   Awarded(Provide_LF_Downward_Reserve_MW,
                                           LOAD_FOLLOWING_RESERVE_RESOURCES, i))))
                discharging ==
                    QAdd(Provide_Power_MW[i],
                         QAdd(QMul(reg_dispatch_fraction,
                                   Awarded(Provide_Upward_Reg_MW,
                                           REGULATION_RESERVE_RESOURCES, i)),
                              QMul(lf_reserve_dispatch_fraction,
                                   Awarded(Provide_LF_Upward_Reserve_MW,
                                           LOAD_FOLLOWING_RESERVE_RESOURCES, i))))
            IN  QEq(Energy_in_Storage_MWh[r, CircularSuccessor(t)],
                    QSub(QAdd(Energy_in_Storage_MWh[i],
                              QMul(charging, charging_efficiency[technology[r]])),
                         QDiv(discharging, discharging_efficiency[technology[r]])))

\* a solved day of two timepoints with lossy charging and discharging: the
\* resource charges in one timepoint and is awarded upward regulation in the
\* last one, from which the recursion wraps to the first
C3_Witness ==
    /\ pc = "solved"
    /\ \E r \in STORAGE_RESOURCES :
          /\ charging_efficiency[technology[r]] = <<1, 2>>
          /\ discharging_efficiency[technology[r]] = <<1, 2>>
          /\ r \in REGULATION_RESERVE_RESOURCES
          /\ \E t \in TIMEPOINTS :
                /\ CircularSuccessor(t) > t
                /\ ~QLe(Charge_Storage_MW[r, t], Q(0))
                /\ ~QEq(Energy_in_Storage_MWh[r, CircularSuccessor(t)],
                        Energy_in_Storage_MWh[r, t])
          /\ \E t \in TIMEPOINTS :
                /\ CircularSuccessor(t) < t
                /\ ~QLe(Provide_Upward_Reg_MW[r, t], Q(0))

\* C4: in every solution, for every storage resource and timepoint t, the
\* energy in storage is at least 0 and at most the total storage energy
\* capacity of t's period times the maintenance derate at t
C4_StorageEnergyBounds ==
    pc = "solved" =>
        \A r \in STORAGE_RESOURCES : \A t \in TIMEPOINTS :
            /\ QLe(Q(0), Energy_in_Storage_MWh[r, t])
            /\ QLe(Energy_in_Storage_MWh[r, t],
                   QMul(Q(Total_Storage_Energy_Capacity_MWh[r, period[t]]),
                        maintenance_derate[r, t]))

\* a solution of a derated resource that is empty in one timepoint and
\* filled to its derated capacity in another
C4_Witness ==
    /\ pc = "solved"
    /\ \E r \in STORAGE_RESOURCES :
          /\ \E t \in TIMEPOINTS :
                /\ maintenance_derate[r, t] = <<1, 2>>
                /\ QEq(Energy_in_Storage_MWh[r, t],
                       QMul(Q(Total_Storage_Energy_Capacity_MWh[r, period[t]]),
                            maintenance_derate[r, t]))
          /\ \E t \in TIMEPOINTS : QEq(Energy_in_Storage_MWh[r, t], Q(0))


(***************************************************************************)
(* Storage round trip: one storage resource of 10 MW and 40 MWh with       *)
(* charging and discharging efficiency 0.9 and no reserves, on one day,    *)
(* charges 10 MW in the hours 1..4 and discharges in the hours 5..8        *)
(***************************************************************************)
RoundTripData ==
    /\ TIMEPOINTS = 1..MaxRoundTripHour
    /\ period = [t \in TIMEPOINTS |-> 1]
    /\ day = [t \in TIMEPOINTS |-> 1]
    /\ charging_efficiency = [g \in STORAGE_TECHNOLOGIES |-> <<9, 10>>]
    /\ discharging_efficiency = [g \in STORAGE_TECHNOLOGIES |-> <<9, 10>>]
    /\ reg_dispatch_fraction = <<0, 1>>
    /\ lf_reserve_dispatch_fraction = <<0, 1>>
    /\ REGULATION_RESERVE_RESOURCES = {}
    /\ LOAD_FOLLOWING_RESERVE_RESOURCES = {}
    /\ maintenance_derate = [i \in STORAGE_RESOURCES \X TIMEPOINTS |-> <<1, 1>>]
    /\ Total_Storage_Energy_Capacity_MWh = [i \in STORAGE_RESOURCES \X {1} |-> 40]
    /\ Operational_Capacity_MW = [i \in STORAGE_RESOURCES \X {1} |-> 10]

\* the dispatch option without charge, discharge or reserve award
Idle ==
    [charge |-> Q(0), power |-> Q(0), up_reg |-> Q(0), down_reg |-> Q(0),
     lf_up |-> Q(0), lf_down |-> Q(0)]

\* the discharge levels of the scenario: 10 MW and 8.1 MW
RoundTripDischarge == {<<10, 1>>, <<81, 10>>}

\* the dispatch the scenario forces in an hour, discharging at one of the
\* given levels
RoundTripDispatch(hour, discharge) ==
    IF hour <= 4 THEN {[Idle EXCEPT !.charge = Q(10)]}
    ELSE IF hour <= 8 THEN {[Idle EXCEPT !.power = x] : x \in discharge}
    ELSE {Idle}

\* the energy levels of the scenario: the ninths of a MWh up to 40 MWh
RoundTripEnergyLevels == {<<k, 9>> : k \in 0..360}

\* the solver gives the energy of the next hour a value that satisfies the
\* constraints under the forced dispatch
Solve_RoundTrip_With(discharge) ==
    /\ pc = "solve"
    /\ UNCHANGED <<timeVars, commitVars, storageParams, dispatchParams, balanceVars,
                   reserveParams, reserveVars, prmVars, capacityVars, flexVars>>
    /\ \E storage_resource \in STORAGE_RESOURCES :
          /\ StorageAssigned(storage_resource) # TIMEPOINTS
          /\ \E timepoint \in {Min(TIMEPOINTS \ StorageAssigned(storage_resource))} :
                \E e \in RoundTripEnergyLevels,
                   d \in RoundTripDispatch(timepoint, discharge) :
                   Assign_Storage(storage_resource, timepoint, e, d)

Solve_RoundTrip == Solve_RoundTrip_With(RoundTripDischarge)

InitRoundTrip ==
    /\ pc = "PERIODS"
    /\ RoundTripData
    /\ IndexNotConstructed
    /\ CommitNotSolved
    /\ StorageNotSolved
    /\ NoDispatch
    /\ NoReserves
    /\ NoCapacity
    /\ NoFlexible

NextRoundTrip ==
    \/ BuildIndex
    \/ Construct_Storage_Constraints
    \/ Solve_RoundTrip

SpecRoundTrip == InitRoundTrip /\ [][NextRoundTrip]_vars


\* the round trip that charges 10 MW in the hours 1..4 and discharges x MW
\* in the hours 5..8 is a feasible trajectory on which the energy in storage
\* peaks after charging, 36 MWh above its start value, and is back at its
\* start value after the four discharge hours
RoundTripReturns(x) ==
    \A r \in STORAGE_RESOURCES :
        (\A t \in StorageAssigned(r) \cap 5..8 : Provide_Power_MW[r, t] = x) =>
            \* once charged, the trajectory can be continued to its end
            /\ (pc = "solve" /\ 5 \in StorageAssigned(r))
                  => ENABLED Solve_RoundTrip_With({x})
            /\ 5 \in StorageAssigned(r) =>
                  /\ QEq(Energy_in_Storage_MWh[r, 5],
                         QAdd(Energy_in_Storage_MWh[r, 1], Q(36)))
                  /\ \A t \in StorageAssigned(r) :
                        QLe(Energy_in_Storage_MWh[r, t], Energy_in_Storage_MWh[r, 5])
            /\ pc = "solved" =>
                  QEq(QSub(Energy_in_Storage_MWh[r, 8], QDiv(x, <<9, 10>>)),
                      Energy_in_Storage_MWh[r, 1])

\* C5 (as stated): charging 10 MW for 4 hours and then discharging 10 MW
\* for 4 hours is a feasible trajectory that peaks at 36 MWh and returns to
\* its start value
C5_RoundTrip_10MW == RoundTripReturns(<<10, 1>>)

\* C5 (amended): charging 10 MW for 4 hours and then discharging 8.1 MW
\* (36 MWh x 0.9 = 32.4 MWh of output) for 4 hours is a feasible trajectory
\* on which the energy in storage peaks 36 MWh above its start value after
\* charging and is back at its start value after the 4 discharge hours
C5_RoundTrip == RoundTripReturns(<<81, 10>>)

\* the solved round trip that starts empty, holds 36 MWh after the four
\* charge hours and has discharged 8.1 MW in each of the hours 5..8
C5_Witness ==
    /\ pc = "solved"
    /\ \A r \in STORAGE_RESOURCES :
          /\ Energy_in_Storage_MWh[r, 1] = <<0, 9>>
          /\ QEq(Energy_in_Storage_MWh[r, 5], Q(36))
          /\ \A t \in 1..4 : Charge_Storage_MW[r, t] = Q(10)
          /\ \A t \in 5..8 : Provide_Power_MW[r, t] = <<81, 10>>


(***************************************************************************)
(* Dispatch: one zone, one dispatchable thermal resource without ramp      *)
(* limit, the zonal power balance and the objective                        *)
(***************************************************************************)
ZONES == {"zone"}
zone == [r \in STORAGE_RESOURCES \cup DISPATCHABLE_RESOURCES |-> "zone"]

\* the resources of the instance: those it has capacity data for
RESOURCES ==
    {r \in STORAGE_RESOURCES \cup DISPATCHABLE_RESOURCES :
        \E i \in DOMAIN Operational_Capacity_MW : i[1] = r}

THERMAL_RESOURCES == RESOURCES \cap DISPATCHABLE_RESOURCES
LOAD_ONLY_RESOURCES == {}
EE_PROGRAMS == {}
FLEXIBLE_LOAD_RESOURCES == {}
\* ramp_rate_fraction is 1: no resource is ramp limited
DISPATCHABLE_RAMP_LIMITED_RESOURCES == {}

\* the parameters of the dispatchable technology
DISPATCHABLE_TECHNOLOGIES == {technology[r] : r \in DISPATCHABLE_RESOURCES}
unit_size_mw == [g \in DISPATCHABLE_TECHNOLOGIES |-> 100]
min_stable_level_fraction == [g \in DISPATCHABLE_TECHNOLOGIES |-> <<3, 10>>]
min_down_time_hours == [g \in DISPATCHABLE_TECHNOLOGIES |-> 1]
min_up_time_hours == [g \in DISPATCHABLE_TECHNOLOGIES |-> 1]
variable_cost_per_mwh == [g \in DISPATCHABLE_TECHNOLOGIES |-> Q(1)]
fuel_burn_slope_mmbtu_per_mwh == [g \in DISPATCHABLE_TECHNOLOGIES |-> Q(8)]
startup_cost_per_mw == [g \in DISPATCHABLE_TECHNOLOGIES |-> Q(1)]
shutdown_cost_per_mw == [g \in DISPATCHABLE_TECHNOLOGIES |-> Q(1)]
start_fuel_mmbtu_per_mw == [g \in DISPATCHABLE_TECHNOLOGIES |-> Q(0)]
\* the fuel price, the same in every period and month
fuel_price_per_mmbtu == [g \in DISPATCHABLE_TECHNOLOGIES |-> Q(1)]
day_weight == [d \in 1..MaxDay |-> Q(1)]
discount_factor == [p \in 1..MaxPeriod |-> Q(1)]
ramp_relax == <<1, 10000>>

\* the sum of f over the set S
RECURSIVE QSum(_, _)
QSum(f, S) ==
    CHOOSE r \in {IF p[2] = {} THEN Q(0)
                  ELSE QAdd(p[1][p[3]], QSum(p[1], p[2] \ {p[3]})) :
                     p \in {<<f, S, IF S = {} THEN 0 ELSE CHOOSE y \in S : TRUE>>}} : TRUE

prestart_to_start_definition(model, resource, timepoint) ==
    LET min_down_time == min_down_time_hours[technology[resource]]
        day_wrap ==
            IF timepoint + min_down_time
                  > last_timepoint_of_day[period[timepoint], day[timepoint]]
            THEN timepoints_per_day ELSE 0
    IN  model.Start_Units[resource, timepoint + min_down_time - day_wrap]

preshut_down_to_shut_down_definition(model, resource, timepoint) ==
    LET min_up_time == min_up_time_hours[technology[resource]]
        day_wrap ==
            IF timepoint + min_up_time
                  > last_timepoint_of_day[period[timepoint], day[timepoint]]
            THEN timepoints_per_day ELSE 0
    IN  model.Shut_Down_Units[resource, timepoint + min_up_time - day_wrap]

\* the timepoints range(1, n) hours before timepoint, wrapping by
\* timepoints_per_day at the first timepoint of the day
LookbackTimepoints(timepoint, n) ==
    IF timepoint - n < first_timepoint_of_day[period[timepoint], day[timepoint]]
    THEN {IF timepoint - pt >= first_timepoint_of_day[period[timepoint], day[timepoint]]
          THEN timepoint - pt
          ELSE timepoint + timepoints_per_day - pt : pt \in 1..(n - 1)}
    ELSE {timepoint - t : t \in 1..(n - 1)}

define_starting_units(model, resource, timepoint) ==
    LET previous_timepoints ==
            LookbackTimepoints(timepoint, min_down_time_hours[technology[resource]])
    IN  QSum([t \in previous_timepoints |->
                 prestart_to_start_definition(model, resource, t)],
             previous_timepoints)

define_shutting_down_units(model, resource, timepoint) ==
    LET previous_timepoints ==
            LookbackTimepoints(timepoint, min_up_time_hours[technology[resource]])
    IN  QSum([t \in previous_timepoints |->
                 preshut_down_to_shut_down_definition(model, resource, t)],
             previous_timepoints)

fully_operational_units_def_rule(model, resource, timepoint) ==
    QSub(QSub(model.Commit_Units[resource, timepoint],
              model.Start_Units[resource, timepoint]),
         model.Shut_Down_Units[resource, next_timepoint[timepoint]])

define_start_capacity(model, resource, timepoint) ==
    QMul(model.Start_Units[resource, timepoint], Q(unit_size_mw[technology[resource]]))

define_commit_capacity(model, resource, timepoint) ==
    QMul(model.Commit_Units[resource, timepoint], Q(unit_size_mw[technology[resource]]))


\* commit_all_capacity defaults to False
commit_all_capacity == [i \in DISPATCHABLE_RESOURCES \X TIMEPOINTS |-> FALSE]

dispatchable_commitment_rule(model, resource, timepoint) ==
    IF commit_all_capacity[resource, timepoint]
    THEN Relation(define_commit_capacity(model, resource, timepoint),
                  "==",
                  available_capacity_def(resource, timepoint))
    ELSE Relation(QAdd(define_commit_capacity(model, resource, timepoint),
                       QMul(define_starting_units(model, resource, timepoint),
                            Q(unit_size_mw[technology[resource]]))),
                  "<=",
                  available_capacity_def(resource, timepoint))

\* the value at (resource, timepoint) of a reserve variable of the model, 0
\* for a resource outside the variable's index set
ReserveOf(var, members, resource, timepoint) ==
    IF resource \in members THEN var[resource, timepoint] ELSE Q(0)

\* the rule with the capacity of a whole unit as maximum output, whatever
\* is committed
dispatchable_max_gen_whole_unit(model, resource, timepoint) ==
    Relation(model.Provide_Power_MW[resource, timepoint],
             "<=",
             Q(unit_size_mw[technology[resource]]))

dispatchable_max_gen_and_up_reserves_rule(model, resource, timepoint) ==
    LET upward_reg == ReserveOf(model.Provide_Upward_Reg_MW,
                                REGULATION_RESERVE_RESOURCES, resource, timepoint)
        upward_lf_reserves == ReserveOf(model.Provide_LF_Upward_Reserve_MW,
                                        LOAD_FOLLOWING_RESERVE_RESOURCES,
                                        resource, timepoint)
        spin == ReserveOf(Provide_Spin_MW, SPINNING_RESERVE_RESOURCES,
                          resource, timepoint)
        frequency_response == ReserveOf(Provide_Frequency_Response_MW,
                                        TOTAL_FREQ_RESP_RESOURCES, resource, timepoint)
        max_power ==
            IF resource \in DISPATCHABLE_RAMP_LIMITED_RESOURCES
            THEN QAdd(QMul(QMul(QSub(model.Commit_Units[resource, timepoint],
                                     fully_operational_units_def_rule(model, resource,
                                                                      timepoint)),
                                Q(unit_size_mw[technology[resource]])),
                           min_stable_level_fraction[technology[resource]]),
                      QMul(fully_operational_units_def_rule(model, resource, timepoint),
                           Q(unit_size_mw[technology[resource]])))
            ELSE define_commit_capacity(model, resource, timepoint)
    IN  Relation(QAdd(QAdd(QAdd(QAdd(model.Provide_Power_MW[resource, timepoint],
                                     upward_reg),
                                upward_lf_reserves),
                           spin),
                      frequency_response),
                 "<=",
                 max_power)

dispatchable_min_gen_and_down_reserves_rule(model, resource, timepoint) ==
    LET downward_reg == ReserveOf(model.Provide_Downward_Reg_MW,
                                  REGULATION_RESERVE_RESOURCES, resource, timepoint)
        downward_lf_reserves == ReserveOf(model.Provide_LF_Downward_Reserve_MW,
                                          LOAD_FOLLOWING_RESERVE_RESOURCES,
                                          resource, timepoint)
        ramp_relax_start_stop ==
            IF resource \in DISPATCHABLE_RAMP_LIMITED_RESOURCES
            THEN QMul(ramp_relax,
                      QSub(model.Commit_Units[resource, timepoint],
                           fully_operational_units_def_rule(model, resource, timepoint)))
            ELSE Q(0)
    IN  Relation(QSub(QSub(model.Provide_Power_MW[resource, timepoint], downward_reg),
                      downward_lf_reserves),
                 ">=",
                 QSub(QMul(define_commit_capacity(model, resource, timepoint),
                           min_stable_level_fraction[technology[resource]]),
                      ramp_relax_start_stop))

dispatchable_units_start_rule(model, resource, timepoint) ==
    Relation(QAdd(QAdd(QMul(prestart_to_start_definition(model, resource, timepoint),
                            Q(unit_size_mw[technology[resource]])),
                       QMul(define_starting_units(model, resource, timepoint),
                            Q(unit_size_mw[technology[resource]]))),
                  define_commit_capacity(model, resource, timepoint)),
             "<=",
             available_capacity_def(resource, timepoint))

dispatchable_units_shut_down_rule(model, dispatchable_resource, timepoint) ==
    Relation(preshut_down_to_shut_down_definition(model, dispatchable_resource, timepoint),
             "<=",
             QSub(model.Commit_Units[dispatchable_resource, timepoint],
                  define_shutting_down_units(model, dispatchable_resource, timepoint)))

\* the rule with the unserved energy always in the balance
zonal_power_balance_rule_no_unserved(model, z, timepoint) ==
    LET in_zone == {r \in RESOURCES : zone[r] = z}
        generators ==
            in_zone \ (LOAD_ONLY_RESOURCES \cup EE_PROGRAMS \cup FLEXIBLE_LOAD_RESOURCES)
        generation ==
            QSum([r \in generators |-> model.Provide_Power_MW[r, timepoint]], generators)
        storage ==  in_zone \cap STORAGE_RESOURCES
        storage_charging ==
            QSum([r \in storage |-> model.Charge_Storage_MW[r, timepoint]], storage)
    IN  Relation(QSub(generation, model.Overgeneration_MW[z, timepoint]),
                 "==",
                 QAdd(input_load_mw[z, timepoint], storage_charging))

\* no transmission lines, semi storage zones, hydrogen, EV, EE or flexible
\* load resources: their terms are 0
zonal_power_balance_rule(model, z, timepoint) ==
    LET in_zone == {r \in RESOURCES : zone[r] = z}
        generators ==
            in_zone \ (LOAD_ONLY_RESOURCES \cup EE_PROGRAMS \cup FLEXIBLE_LOAD_RESOURCES)
        generation ==
            QSum([r \in generators |-> model.Provide_Power_MW[r, timepoint]], generators)
        storage ==  in_zone \cap STORAGE_RESOURCES
        storage_charging ==
            QSum([r \in storage |-> model.Charge_Storage_MW[r, timepoint]], storage)
        unserved_energy ==
            IF allow_unserved_energy THEN model.Unserved_Energy_MW[z, timepoint]
            ELSE Q(0)
    IN  Relation(QSub(generation, model.Overgeneration_MW[z, timepoint]),
                 "==",
                 QSub(QAdd(input_load_mw[z, timepoint], storage_charging),
                      unserved_energy))


define_variable_cost_in_timepoint(model, resource, timepoint) ==
    QMul(model.Provide_Power_MW[resource, timepoint],
         variable_cost_per_mwh[technology[resource]])

define_start_fuel_in_timepoint(model, r, tmp) ==
    QMul(define_start_capacity(model, r, tmp), start_fuel_mmbtu_per_mw[technology[r]])

define_fuel_consumption(model, thermal_resource, timepoint) ==
    LET power_output_mwh ==
            QAdd(QAdd(model.Provide_Power_MW[thermal_resource, timepoint],
                      QMul(QSub(ReserveOf(model.Provide_Upward_Reg_MW,
                                          REGULATION_RESERVE_RESOURCES,
                                          thermal_resource, timepoint),
                                ReserveOf(model.Provide_Downward_Reg_MW,
                                          REGULATION_RESERVE_RESOURCES,
                                          thermal_resource, timepoint)),
                           reg_dispatch_fraction)),
                 QMul(QSub(ReserveOf(model.Provide_LF_Upward_Reserve_MW,
                                     LOAD_FOLLOWING_RESERVE_RESOURCES,
                                     thermal_resource, timepoint),
                           ReserveOf(model.Provide_LF_Downward_Reserve_MW,
                                     LOAD_FOLLOWING_RESERVE_RESOURCES,
                                     thermal_resource, timepoint)),
                      lf_reserve_dispatch_fraction))
        fuel_consumption ==
            QMul(power_output_mwh,
                 fuel_burn_slope_mmbtu_per_mwh[technology[thermal_resource]])
    IN  IF thermal_resource \in DISPATCHABLE_RESOURCES
        THEN QAdd(QAdd(fuel_consumption,
                       QMul(model.Commit_Units[thermal_resource, timepoint],
                            fuel_burn_intercept_mmbtu_per_hr[technology[thermal_resource]])),
                  define_start_fuel_in_timepoint(model, thermal_resource, timepoint))
        ELSE fuel_consumption

define_fuel_cost(model, resource, timepoint) ==
    QMul(define_fuel_consumption(model, resource, timepoint),
         fuel_price_per_mmbtu[technology[resource]])

define_start_cost_in_timepoint(model, r, tmp) ==
    QMul(define_start_capacity(model, r, tmp), startup_cost_per_mw[technology[r]])

define_shutdown_cost_in_timepoint(model, r, tmp) ==
    QMul(QMul(model.Shut_Down_Units[r, tmp], Q(unit_size_mw[technology[r]])),
         shutdown_cost_per_mw[technology[r]])

\* the hourly costs of a timepoint: the resources' variable, fuel, start and
\* shutdown costs and the unserved energy and overgeneration penalties
HourlyCost(model, tmp) ==
    LET timepoint_weight == QMul(day_weight[day[tmp]], discount_factor[period[tmp]])
        resource_costs ==
            [r \in RESOURCES |->
                QAdd(define_variable_cost_in_timepoint(model, r, tmp),
                     QAdd(IF r \in THERMAL_RESOURCES
                          THEN define_fuel_cost(model, r, tmp) ELSE Q(0),
                          IF r \in DISPATCHABLE_RESOURCES
                          THEN QAdd(define_start_cost_in_timepoint(model, r, tmp),
                                    define_shutdown_cost_in_timepoint(model, r, tmp))
                          ELSE Q(0)))]
        penalties ==
            [z \in ZONES |->
                QAdd(IF allow_unserved_energy
                     THEN QMul(model.Unserved_Energy_MW[z, tmp],
                               unserved_energy_penalty_per_mw)
                     ELSE Q(0),
                     QMul(model.Overgeneration_MW[z, tmp], overgen_penalty_per_mw))]
    IN  QMul(QAdd(QSum(resource_costs, RESOURCES), QSum(penalties, ZONES)),
             timepoint_weight)

\* no capacity, transmission, tuning, biogas, curtailment, hurdle or reserve
\* violation costs arise in the instance: the objective is the hourly costs
total_cost_rule(model) ==
    CHOOSE r \in {QSum([tmp \in TIMEPOINTS |-> HourlyCost(m, tmp)], TIMEPOINTS) :
                     m \in {model}} : TRUE


\* the data of a dispatch instance: one period and day of timepoints_per_day
\* hours, a flat load, one unit of 100 MW
DispatchData ==
    /\ TIMEPOINTS = 1..timepoints_per_day
    /\ period = [t \in TIMEPOINTS |-> 1]
    /\ day = [t \in TIMEPOINTS |-> 1]
    /\ charging_efficiency = <<>>
    /\ discharging_efficiency = <<>>
    /\ reg_dispatch_fraction = <<0, 1>>
    /\ lf_reserve_dispatch_fraction = <<0, 1>>
    /\ REGULATION_RESERVE_RESOURCES = {}
    /\ LOAD_FOLLOWING_RESERVE_RESOURCES = {}
    /\ maintenance_derate = [i \in DISPATCHABLE_RESOURCES \X TIMEPOINTS |-> <<1, 1>>]
    /\ Total_Storage_Energy_Capacity_MWh = <<>>
    /\ Operational_Capacity_MW = [i \in DISPATCHABLE_RESOURCES \X {1} |-> 100]
    /\ \E l \in {Q(50), Q(150)} : input_load_mw = [i \in ZONES \X TIMEPOINTS |-> l]
    /\ allow_unserved_energy \in BOOLEAN
    /\ unserved_energy_penalty_per_mw \in {Q(5), Q(1000)}
    /\ overgen_penalty_per_mw = Q(1000)
    /\ \E b \in {Q(0), Q(100)} :
          fuel_burn_intercept_mmbtu_per_hr = [g \in DISPATCHABLE_TECHNOLOGIES |-> b]

\* the rules run for every index when the constraints are generated; a
\* lookup of a timepoint that does not exist raises KeyError
Construct_Dispatch_Constraints ==
    /\ pc = "indexed"
    /\ pc' = IF \A t \in TIMEPOINTS :
                  /\ previous_timepoint[t] \in TIMEPOINTS
                  /\ next_timepoint[t] \in TIMEPOINTS
                  /\ \A g \in DISPATCHABLE_TECHNOLOGIES :
                        LET wrap(h) ==
                                IF t + h > last_timepoint_of_day[period[t], day[t]]
                                THEN timepoints_per_day ELSE 0
                        IN  /\ t + min_down_time_hours[g] - wrap(min_down_time_hours[g])
                                  \in TIMEPOINTS
                            /\ t + min_up_time_hours[g] - wrap(min_up_time_hours[g])
                                  \in TIMEPOINTS
             THEN "solve" ELSE "error"
    /\ UNCHANGED <<timeVars, nonIndexVars>>

\* the values the solver may give the variables of one hour: the commitment
\* in halves of a unit, power and slacks in steps of 50 MW
\* (a variable that is in no constraint and not in the objective is not
\* given to the solver: unserved energy stays 0 when it is not allowed)
HourValues ==
    [commit : {Q(0), <<1, 2>>, Q(1)}, start : {Q(0), <<1, 2>>}, shut : {Q(0), <<1, 2>>},
     power : {Q(0), Q(50), Q(100)},
     unserved : IF allow_unserved_energy THEN {Q(0), Q(50)} ELSE {Q(0)},
     overgen : {Q(0), Q(50)}]

\* the model whose variables have the values f gives for the hours of its
\* domain
ModelOf(f) ==
    [Commit_Units |-> [i \in DISPATCHABLE_RESOURCES \X DOMAIN f |-> f[i[2]].commit],
     Start_Units |-> [i \in DISPATCHABLE_RESOURCES \X DOMAIN f |-> f[i[2]].start],
     Shut_Down_Units |-> [i \in DISPATCHABLE_RESOURCES \X DOMAIN f |-> f[i[2]].shut],
     Provide_Power_MW |-> [i \in DISPATCHABLE_RESOURCES \X DOMAIN f |-> f[i[2]].power],
     Charge_Storage_MW |-> <<>>,
     Provide_Upward_Reg_MW |-> <<>>,
     Provide_Downward_Reg_MW |-> <<>>,
     Provide_LF_Upward_Reserve_MW |-> <<>>,
     Provide_LF_Downward_Reserve_MW |-> <<>>,
     Unserved_Energy_MW |-> [i \in ZONES \X DOMAIN f |-> f[i[2]].unserved],
     Overgeneration_MW |-> [i \in ZONES \X DOMAIN f |-> f[i[2]].overgen]]

\* the constraints of timepoint t that read the variables of t alone, and
\* the commitment tracking within the timepoints up to t
PartialFeasible(model, t) ==
    /\ \A z \in ZONES : HoldsQ(zonal_power_balance_rule(model, z, t))
    /\ \A r \in DISPATCHABLE_RESOURCES :
          /\ HoldsQ(dispatchable_max_gen_and_up_reserves_rule(model, r, t))
          /\ HoldsQ(dispatchable_min_gen_and_down_reserves_rule(model, r, t))
          /\ \A u \in 1..t :
                previous_timepoint[u] <= t
                   => HoldsQ(dispatchable_resource_commitment_tracking_rule(model, r, u))

\* every generated constraint holds
DispatchFeasible(model) ==
    /\ \A z \in ZONES, t \in TIMEPOINTS :
          HoldsQ(zonal_power_balance_rule(model, z, t))
    /\ \A r \in DISPATCHABLE_RESOURCES, t \in TIMEPOINTS :
          /\ HoldsQ(dispatchable_commitment_rule(model, r, t))
          /\ HoldsQ(dispatchable_max_gen_and_up_reserves_rule(model, r, t))
          /\ HoldsQ(dispatchable_min_gen_and_down_reserves_rule(model, r, t))
          /\ HoldsQ(dispatchable_units_start_rule(model, r, t))
          /\ HoldsQ(dispatchable_units_shut_down_rule(model, r, t))
          /\ HoldsQ(dispatchable_resource_commitment_tracking_rule(model, r, t))

\* the assignments of the hours 1..n that can be part of a solution
RECURSIVE PartialSolutions(_)
PartialSolutions(n) ==
    IF n = 0 THEN {<<>>}
    ELSE {Extend(x[1], n, x[2]) :
             x \in {y \in PartialSolutions(n - 1) \X HourValues :
                       PartialFeasible(ModelOf(Extend(y[1], n, y[2])), n)}}

\* the solutions of the instance
FeasibleSolutions ==
    {m \in {ModelOf(f) : f \in PartialSolutions(Cardinality(TIMEPOINTS))} :
        DispatchFeasible(m)}

\* The solver minimises Total_Cost: it returns a feasible solution of least
\* cost, or reports that no solution satisfies the constraints.
Solve_Dispatch ==
    /\ pc = "solve"
    /\ UNCHANGED <<timeVars, storageParams, dispatchParams, reserveParams, reserveVars,
                   prmVars, capacityVars, flexVars>>
    /\ UNCHANGED <<Energy_in_Storage_MWh, Charge_Storage_MW, Provide_Upward_Reg_MW,
                   Provide_Downward_Reg_MW, Provide_LF_Upward_Reserve_MW,
                   Provide_LF_Downward_Reserve_MW>>
    /\ \E feasible \in {FeasibleSolutions} :
          IF feasible = {}
          THEN /\ pc' = "infeasible"
               /\ UNCHANGED <<commitVars, Provide_Power_MW, balanceVars>>
          ELSE \E cost \in {[m \in feasible |-> total_cost_rule(m)]} :
                  \E m \in {o \in feasible : \A n \in feasible : QLe(cost[o], cost[n])} :
                     /\ Commit_Units' = m.Commit_Units
                     /\ Start_Units' = m.Start_Units
                     /\ Shut_Down_Units' = m.Shut_Down_Units
                     /\ Provide_Power_MW' = m.Provide_Power_MW
                     /\ Unserved_Energy_MW' = m.Unserved_Energy_MW
                     /\ Overgeneration_MW' = m.Overgeneration_MW
                     /\ pc' = "solved"

InitDispatch ==
    /\ pc = "PERIODS"
    /\ DispatchData
    /\ IndexNotConstructed
    /\ CommitNotSolved
    /\ StorageNotSolved
    /\ BalanceNotSolved
    /\ NoReserves
    /\ NoCapacity
    /\ NoFlexible

NextDispatch ==
    \/ BuildIndex
    \/ Construct_Dispatch_Constraints
    \/ Solve_Dispatch

SpecDispatch == InitDispatch /\ [][NextDispatch]_vars


\* the hours of the solved instance and its single zone and resource
DispatchSolved == pc = "solved" /\ Commit_Units # <<>> /\ Unserved_Energy_MW # <<>>

\* the minimal scenario: a flat load of 50 MW that is cheaper to serve than
\* to leave unserved
MinimalScenario ==
    /\ \A i \in DOMAIN input_load_mw : input_load_mw[i] = Q(50)
    /\ ~allow_unserved_energy \/ unserved_energy_penalty_per_mw = Q(1000)

\* C6 as stated: in the minimal scenario the cost-minimal solution commits
\* at least one whole unit of the dispatchable resource in every hour.
C6_CommitAtLeastOneUnit ==
    (DispatchSolved /\ MinimalScenario)
       => \A r \in DISPATCHABLE_RESOURCES, t \in TIMEPOINTS :
             QLe(Q(1), Commit_Units[r, t])

\* C6: in the minimal scenario the cost-minimal solution commits, in every
\* hour, at least the fraction of a unit whose capacity covers the load (half
\* of the 100 MW unit for the 50 MW load), provides exactly the load and
\* leaves no energy unserved or overgenerated; Commit_Units is a nonnegative
\* real, and with a positive fuel burn intercept it is exactly that fraction.
C6_CommitCoversLoad ==
    (DispatchSolved /\ MinimalScenario)
       => \A r \in DISPATCHABLE_RESOURCES, t \in TIMEPOINTS :
             /\ QLe(input_load_mw[zone[r], t],
                    QMul(Commit_Units[r, t], Q(unit_size_mw[technology[r]])))
             /\ QEq(Provide_Power_MW[r, t], input_load_mw[zone[r], t])
             /\ QEq(Unserved_Energy_MW[zone[r], t], Q(0))
             /\ QEq(Overgeneration_MW[zone[r], t], Q(0))
             /\ QLe(Q(1), fuel_burn_intercept_mmbtu_per_hr[technology[r]])
                   => QEq(Commit_Units[r, t], <<1, 2>>)

\* the minimal scenario is solved with half a unit committed in every hour
C6_Witness ==
    /\ DispatchSolved
    /\ MinimalScenario
    /\ \A r \in DISPATCHABLE_RESOURCES, t \in TIMEPOINTS :
          /\ QEq(Commit_Units[r, t], <<1, 2>>)
          /\ QEq(Provide_Power_MW[r, t], Q(50))

\* the shortfall of the solution in a zone and timepoint is in the unserved
\* energy slack: the slack is nonnegative and closes the power balance
ShortfallAbsorbed ==
    /\ pc # "infeasible"
    /\ DispatchSolved
          => /\ \A z \in ZONES, t \in TIMEPOINTS :
                   /\ NonNegativeReals(Unserved_Energy_MW[z, t])
                   /\ QEq(QSub(QSum([r \in DISPATCHABLE_RESOURCES |-> Provide_Power_MW[r, t]],
                                    DISPATCHABLE_RESOURCES),
                               Overgeneration_MW[z, t]),
                          QSub(input_load_mw[z, t], Unserved_Energy_MW[z, t]))
             /\ QEq(QSub(total_cost_rule(Solution),
                         total_cost_rule([Solution EXCEPT !.Unserved_Energy_MW =
                                             [i \in DOMAIN Unserved_Energy_MW |-> Q(0)]])),
                    QSum([i \in DOMAIN Unserved_Energy_MW |->
                             QMul(QMul(Unserved_Energy_MW[i], unserved_energy_penalty_per_mw),
                                  QMul(day_weight[day[i[2]]], discount_factor[period[i[2]]]))],
                         DOMAIN Unserved_Energy_MW))

VARIABLE_RESOURCES == {}
Variable_Resource_Provide_Upward_LF_MW == [t \in TIMEPOINTS |-> Q(0)]
Variable_Resource_Provide_Downward_LF_MW == [t \in TIMEPOINTS |-> Q(0)]

\* the sum of a reserve variable over the resources of its index set
Provision(var, members, timepoint) ==
    QSum([r \in members |-> var[r, timepoint]], members)

\* no EE program reduces the load
spinning_reserve_req(timepoint) ==
    QSum([z \in ZONES |->
             QMul(spin_reserve_fraction_of_load[z],
                  QSub(input_load_mw[z, timepoint], Q(0)))],
         ZONES)

\* the rule as an inequality without the violation variable
spinning_reserve_rule_no_slack(model, timepoint) ==
    Relation(Provision(model.Provide_Spin_MW, SPINNING_RESERVE_RESOURCES, timepoint),
             ">=",
             spinning_reserve_req(timepoint))

spinning_reserve_rule(model, timepoint) ==
    Relation(QAdd(Provision(model.Provide_Spin_MW, SPINNING_RESERVE_RESOURCES, timepoint),
                  model.Spin_Violation_MW[timepoint]),
             "==",
             spinning_reserve_req(timepoint))

upward_regulation_rule(model, timepoint) ==
    Relation(QAdd(Provision(model.Provide_Upward_Reg_MW, REGULATION_RESERVE_RESOURCES,
                            timepoint),
                  model.Upward_Reg_Violation_MW[timepoint]),
             "==",
             upward_reg_req[timepoint])

downward_regulation_rule(model, timepoint) ==
    Relation(QAdd(Provision(model.Provide_Downward_Reg_MW, REGULATION_RESERVE_RESOURCES,
                            timepoint),
                  model.Downward_Reg_Violation_MW[timepoint]),
             "==",
             downward_reg_req[timepoint])

upward_combined_lf_reserve_req(timepoint) == upward_lf_reserve_req[timepoint]

downward_combined_lf_reserve_req(timepoint) == downward_lf_reserve_req[timepoint]

downward_load_following_reserve_rule(model, timepoint) ==
    Relation(QAdd(QAdd(Variable_Resource_Provide_Downward_LF_MW[timepoint],
                       model.Downward_LF_Reserve_Violation_MW[timepoint]),
                  Provision(model.Provide_LF_Downward_Reserve_MW,
                            LOAD_FOLLOWING_RESERVE_RESOURCES, timepoint)),
             "==",
             downward_combined_lf_reserve_req(timepoint))

meet_upward_load_following_reserve_rule(model, timepoint) ==
    Relation(QAdd(QAdd(Provision(model.Provide_LF_Upward_Reserve_MW,
                                 LOAD_FOLLOWING_RESERVE_RESOURCES, timepoint),
                       Variable_Resource_Provide_Upward_LF_MW[timepoint]),
                  model.Upward_LF_Reserve_Violation_MW[timepoint]),
             "==",
             upward_combined_lf_reserve_req(timepoint))

total_frequency_response_rule(model, timepoint) ==
    IF QEq(freq_resp_total_req_mw[timepoint], Q(0))
    THEN Skip
    ELSE Relation(Provision(model.Provide_Frequency_Response_MW,
                            TOTAL_FREQ_RESP_RESOURCES, timepoint),
                  ">=",
                  freq_resp_total_req_mw[timepoint])

partial_frequency_response_rule(model, timepoint) ==
    IF QEq(freq_resp_partial_req_mw[timepoint], Q(0))
    THEN Skip
    ELSE Relation(Provision(model.Provide_Frequency_Response_MW,
                            PARTIAL_FREQ_RESP_RESOURCES, timepoint),
                  ">=",
                  freq_resp_partial_req_mw[timepoint])


\* the resources that may provide reserves
RESERVE_RESOURCES == DISPATCHABLE_RESOURCES

\* the data of a reserve instance: a flat load of 100 MW, the reserve
\* resources able to provide spinning, regulation and load following
\* reserves or none of them, every requirement 0 or 50 MW in every timepoint
ReserveData ==
    /\ TIMEPOINTS = 1..MaxReserveTimepoint
    /\ period = [t \in TIMEPOINTS |-> 1]
    /\ day = [t \in TIMEPOINTS |-> 1]
    /\ charging_efficiency = <<>>
    /\ discharging_efficiency = <<>>
    /\ reg_dispatch_fraction = <<0, 1>>
    /\ lf_reserve_dispatch_fraction = <<0, 1>>
    /\ maintenance_derate = <<>>
    /\ Total_Storage_Energy_Capacity_MWh = <<>>
    /\ Operational_Capacity_MW = <<>>
    /\ input_load_mw = [i \in ZONES \X TIMEPOINTS |-> Q(100)]
    /\ allow_unserved_energy = FALSE
    /\ unserved_energy_penalty_per_mw = <<0, 1>>
    /\ overgen_penalty_per_mw = <<0, 1>>
    /\ fuel_burn_intercept_mmbtu_per_hr = <<>>
    /\ \E eligible \in SUBSET RESERVE_RESOURCES :
          /\ SPINNING_RESERVE_RESOURCES = eligible
          /\ REGULATION_RESERVE_RESOURCES = eligible
          /\ LOAD_FOLLOWING_RESERVE_RESOURCES = eligible
    /\ TOTAL_FREQ_RESP_RESOURCES = RESERVE_RESOURCES
    /\ PARTIAL_FREQ_RESP_RESOURCES = RESERVE_RESOURCES
    /\ \E f \in {Q(0), <<1, 2>>} : spin_reserve_fraction_of_load = [z \in ZONES |-> f]
    /\ \E req \in {Q(0), Q(50)} :
          /\ upward_reg_req = [t \in TIMEPOINTS |-> req]
          /\ downward_reg_req = [t \in TIMEPOINTS |-> req]
    /\ \E req \in {Q(0), Q(50)} :
          /\ upward_lf_reserve_req = [t \in TIMEPOINTS |-> req]
          /\ downward_lf_reserve_req = [t \in TIMEPOINTS |-> req]
    /\ freq_resp_total_req_mw \in {[t \in TIMEPOINTS |-> req] : req \in {Q(0), Q(50)}}
    /\ freq_resp_partial_req_mw \in {[t \in TIMEPOINTS |-> req] : req \in {Q(0), Q(50)}}

\* the values the solver may give a variable of one timepoint: steps of
\* 50 MW, and 0 for the variable of a resource that is not in the index set
ReserveLevels(members) == IF members = {} THEN {Q(0)} ELSE {Q(0), Q(50)}

ReserveHourValues ==
    [spin : ReserveLevels(SPINNING_RESERVE_RESOURCES),
     upward_reg : ReserveLevels(REGULATION_RESERVE_RESOURCES),
     downward_reg : ReserveLevels(REGULATION_RESERVE_RESOURCES),
     lf_upward : ReserveLevels(LOAD_FOLLOWING_RESERVE_RESOURCES),
     lf_downward : ReserveLevels(LOAD_FOLLOWING_RESERVE_RESOURCES),
     frequency_response : {Q(0), Q(50), Q(100)},
     spin_violation : {Q(0), Q(50)},
     upward_reg_violation : {Q(0), Q(50)},
     downward_reg_violation : {Q(0), Q(50)},
     upward_lf_violation : {Q(0), Q(50)},
     downward_lf_violation : {Q(0), Q(50)}]

\* the model whose reserve variables have the values f gives for the
\* timepoints of its domain
ReserveModelOf(f) ==
    [Provide_Spin_MW |->
        [i \in SPINNING_RESERVE_RESOURCES \X DOMAIN f |-> f[i[2]].spin],
     Provide_Upward_Reg_MW |->
        [i \in REGULATION_RESERVE_RESOURCES \X DOMAIN f |-> f[i[2]].upward_reg],
     Provide_Downward_Reg_MW |->
        [i \in REGULATION_RESERVE_RESOURCES \X DOMAIN f |-> f[i[2]].downward_reg],
     Provide_LF_Upward_Reserve_MW |->
        [i \in LOAD_FOLLOWING_RESERVE_RESOURCES \X DOMAIN f |-> f[i[2]].lf_upward],
     Provide_LF_Downward_Reserve_MW |->
        [i \in LOAD_FOLLOWING_RESERVE_RESOURCES \X DOMAIN f |-> f[i[2]].lf_downward],
     Provide_Frequency_Response_MW |->
        [i \in TOTAL_FREQ_RESP_RESOURCES \X DOMAIN f |-> f[i[2]].frequency_response],
     Spin_Violation_MW |-> [t \in DOMAIN f |-> f[t].spin_violation],
     Upward_Reg_Violation_MW |-> [t \in DOMAIN f |-> f[t].upward_reg_violation],
     Downward_Reg_Violation_MW |-> [t \in DOMAIN f |-> f[t].downward_reg_violation],
     Upward_LF_Reserve_Violation_MW |-> [t \in DOMAIN f |-> f[t].upward_lf_violation],
     Downward_LF_Reserve_Violation_MW |-> [t \in DOMAIN f |-> f[t].downward_lf_violation]]

\* the values of the reserve variables, as a rule's argument `model`
ReserveSolution ==
    [Provide_Spin_MW |-> Provide_Spin_MW,
     Provide_Upward_Reg_MW |-> Provide_Upward_Reg_MW,
     Provide_Downward_Reg_MW |-> Provide_Downward_Reg_MW,
     Provide_LF_Upward_Reserve_MW |-> Provide_LF_Upward_Reserve_MW,
     Provide_LF_Downward_Reserve_MW |-> Provide_LF_Downward_Reserve_MW,
     Provide_Frequency_Response_MW |-> Provide_Frequency_Response_MW,
     Spin_Violation_MW |-> Spin_Violation_MW,
     Upward_Reg_Violation_MW |-> Upward_Reg_Violation_MW,
     Downward_Reg_Violation_MW |-> Downward_Reg_Violation_MW,
     Upward_LF_Reserve_Violation_MW |-> Upward_LF_Reserve_Violation_MW,
     Downward_LF_Reserve_Violation_MW |-> Downward_LF_Reserve_Violation_MW]

\* the reserve requirement constraints of a timepoint hold
ReserveFeasible(model, timepoint) ==
    /\ HoldsQ(spinning_reserve_rule(model, timepoint))
    /\ HoldsQ(upward_regulation_rule(model, timepoint))
    /\ HoldsQ(downward_regulation_rule(model, timepoint))
    /\ HoldsQ(downward_load_following_reserve_rule(model, timepoint))
    /\ HoldsQ(meet_upward_load_following_reserve_rule(model, timepoint))
    /\ HoldsQ(total_frequency_response_rule(model, timepoint))
    /\ HoldsQ(partial_frequency_response_rule(model, timepoint))

\* the assignments of the timepoints 1..n that satisfy the constraints; no
\* requirement constraint reads the variables of two timepoints
RECURSIVE ReserveSolutions(_)
ReserveSolutions(n) ==
    IF n = 0 THEN {<<>>}
    ELSE {Extend(x[1], n, x[2]) :
             x \in ReserveSolutions(n - 1)
                      \X {w : w \in {v \in ReserveHourValues :
                                        ReserveFeasible(ReserveModelOf(Extend(<<>>, n, v)),
                                                        n)}}}

Construct_Reserve_Constraints ==
    /\ pc = "indexed"
    /\ pc' = "solve"
    /\ UNCHANGED <<timeVars, nonIndexVars>>

\* The solver returns values that satisfy the constraints.
Solve_Reserves ==
    /\ pc = "solve"
    /\ \E f \in ReserveSolutions(Cardinality(TIMEPOINTS)) :
          \E m \in {ReserveModelOf(f)} :
             /\ Provide_Spin_MW' = m.Provide_Spin_MW
             /\ Provide_Upward_Reg_MW' = m.Provide_Upward_Reg_MW
             /\ Provide_Downward_Reg_MW' = m.Provide_Downward_Reg_MW
             /\ Provide_LF_Upward_Reserve_MW' = m.Provide_LF_Upward_Reserve_MW
             /\ Provide_LF_Downward_Reserve_MW' = m.Provide_LF_Downward_Reserve_MW
             /\ Provide_Frequency_Response_MW' = m.Provide_Frequency_Response_MW
             /\ Spin_Violation_MW' = m.Spin_Violation_MW
             /\ Upward_Reg_Violation_MW' = m.Upward_Reg_Violation_MW
             /\ Downward_Reg_Violation_MW' = m.Downward_Reg_Violation_MW
             /\ Upward_LF_Reserve_Violation_MW' = m.Upward_LF_Reserve_Violation_MW
             /\ Downward_LF_Reserve_Violation_MW' = m.Downward_LF_Reserve_Violation_MW
    /\ pc' = "solved"
    /\ UNCHANGED <<timeVars, commitVars, storageParams, dispatchParams, balanceVars,
                   reserveParams, prmVars, capacityVars, flexVars>>
    /\ UNCHANGED <<Energy_in_Storage_MWh, Charge_Storage_MW, Provide_Power_MW>>

InitReserves ==
    /\ pc = "PERIODS"
    /\ ReserveData
    /\ NoCapacity
    /\ NoFlexible
    /\ IndexNotConstructed
    /\ CommitNotSolved
    /\ StorageNotSolved
    /\ BalanceNotSolved
    /\ ReservesNotSolved

NextReserves ==
    \/ BuildIndex
    \/ Construct_Reserve_Constraints
    \/ Solve_Reserves

SpecReserves == InitReserves /\ [][NextReserves]_vars


ReservesSolved == pc = "solved" /\ Spin_Violation_MW # <<>>

\* the provision of the eligible resources and a nonnegative violation slack
\* add up to the requirement, for spinning, regulation and load following
\* reserves
SlackEqualities(timepoint) ==
    /\ spinning_reserve_rule(ReserveSolution, timepoint).sense = "=="
    /\ QEq(QAdd(Provision(Provide_Spin_MW, SPINNING_RESERVE_RESOURCES, timepoint),
                Spin_Violation_MW[timepoint]),
           spinning_reserve_req(timepoint))
    /\ NonNegativeReals(Spin_Violation_MW[timepoint])
    /\ upward_regulation_rule(ReserveSolution, timepoint).sense = "=="
    /\ QEq(QAdd(Provision(Provide_Upward_Reg_MW, REGULATION_RESERVE_RESOURCES, timepoint),
                Upward_Reg_Violation_MW[timepoint]),
           upward_reg_req[timepoint])
    /\ NonNegativeReals(Upward_Reg_Violation_MW[timepoint])
    /\ downward_regulation_rule(ReserveSolution, timepoint).sense = "=="
    /\ QEq(QAdd(Provision(Provide_Downward_Reg_MW, REGULATION_RESERVE_RESOURCES,
                          timepoint),
                Downward_Reg_Violation_MW[timepoint]),
           downward_reg_req[timepoint])
    /\ NonNegativeReals(Downward_Reg_Violation_MW[timepoint])
    /\ meet_upward_load_following_reserve_rule(ReserveSolution, timepoint).sense = "=="
    /\ QEq(QAdd(QAdd(Provision(Provide_LF_Upward_Reserve_MW,
                               LOAD_FOLLOWING_RESERVE_RESOURCES, timepoint),
                     Variable_Resource_Provide_Upward_LF_MW[timepoint]),
                Upward_LF_Reserve_Violation_MW[timepoint]),
           upward_lf_reserve_req[timepoint])
    /\ NonNegativeReals(Upward_LF_Reserve_Violation_MW[timepoint])
    /\ downward_load_following_reserve_rule(ReserveSolution, timepoint).sense = "=="
    /\ QEq(QAdd(QAdd(Provision(Provide_LF_Downward_Reserve_MW,
                               LOAD_FOLLOWING_RESERVE_RESOURCES, timepoint),
                     Variable_Resource_Provide_Downward_LF_MW[timepoint]),
                Downward_LF_Reserve_Violation_MW[timepoint]),
           downward_lf_reserve_req[timepoint])
    /\ NonNegativeReals(Downward_LF_Reserve_Violation_MW[timepoint])

\* the provision of frequency response and some nonnegative slack add up to
\* the requirement: the slack is the requirement less the provision
FrequencyResponseEqualities(timepoint) ==
    /\ NonNegativeReals(QSub(freq_resp_total_req_mw[timepoint],
                             Provision(Provide_Frequency_Response_MW,
                                       TOTAL_FREQ_RESP_RESOURCES, timepoint)))
    /\ NonNegativeReals(QSub(freq_resp_partial_req_mw[timepoint],
                             Provision(Provide_Frequency_Response_MW,
                                       PARTIAL_FREQ_RESP_RESOURCES, timepoint)))

\* the provision of frequency response is at least the requirement, unless
\* the requirement is 0 and the constraint is skipped
FrequencyResponseInequalities(timepoint) ==
    /\ total_frequency_response_rule(ReserveSolution, timepoint).sense
          = IF QEq(freq_resp_total_req_mw[timepoint], Q(0)) THEN "Skip" ELSE ">="
    /\ partial_frequency_response_rule(ReserveSolution, timepoint).sense
          = IF QEq(freq_resp_partial_req_mw[timepoint], Q(0)) THEN "Skip" ELSE ">="
    /\ ~QEq(freq_resp_total_req_mw[timepoint], Q(0))
          => QLe(freq_resp_total_req_mw[timepoint],
                 Provision(Provide_Frequency_Response_MW, TOTAL_FREQ_RESP_RESOURCES,
                           timepoint))
    /\ ~QEq(freq_resp_partial_req_mw[timepoint], Q(0))
          => QLe(freq_resp_partial_req_mw[timepoint],
                 Provision(Provide_Frequency_Response_MW, PARTIAL_FREQ_RESP_RESOURCES,
                           timepoint))

\* C8 as stated: in every timepoint each of the seven reserve requirements
\* (spinning, regulation up and down, load following up and down, total and
\* partial frequency response) is met as an equality: provision of the
\* eligible resources + a nonnegative violation slack == requirement.
C8_SevenSlackEqualities ==
    ReservesSolved
       => \A t \in TIMEPOINTS : SlackEqualities(t) /\ FrequencyResponseEqualities(t)

\* C8: in every timepoint each of the five requirements for spinning,
\* regulation up and down and load following up and down reserves is met as
\* an equality, provision of the eligible resources + a nonnegative
\* violation slack == requirement; the total and the partial frequency
\* response requirements are inequalities without a slack, provision >=
\* requirement, and are skipped when the requirement is 0.
C8_ReserveRequirements ==
    ReservesSolved
       => \A t \in TIMEPOINTS : SlackEqualities(t) /\ FrequencyResponseInequalities(t)

\* a solution with a spinning reserve shortfall in the violation slack,
\* regulation provided in full and more frequency response than required
C8_Witness ==
    /\ ReservesSolved
    /\ \E t \in TIMEPOINTS :
          /\ QEq(spinning_reserve_req(t), Q(50))
          /\ QEq(Spin_Violation_MW[t], Q(50))
          /\ \E r \in REGULATION_RESERVE_RESOURCES :
                /\ QEq(Provide_Upward_Reg_MW[r, t], Q(50))
                /\ QEq(Upward_Reg_Violation_MW[t], Q(0))
          /\ QEq(freq_resp_total_req_mw[t], Q(50))
          /\ QEq(Provision(Provide_Frequency_Response_MW, TOTAL_FREQ_RESP_RESOURCES, t),
                 Q(100))

(***************************************************************************)
(* Planning reserve margin: the resources of the margin and the            *)
(* representations they are counted under.  The rules read the components  *)
(* of the model they are given, as the Python rules read model.X.          *)
(***************************************************************************)
\* PRM_RESOURCES: the resources other than loads in a zone of the margin
PRM_RESOURCES(model) ==
    {r \in (model.RESOURCES \ model.LOAD_ONLY_RESOURCES) \ model.FLEXIBLE_LOAD_RESOURCES :
        model.include_in_prm[model.zone[r]]}

\* new renewables of the margin, built on existing or on new transmission
TX_DELIVERABILITY_RESOURCES(model) ==
    (model.NEW_BUILD_RESOURCES \cap model.RPS_ELIGIBLE_RESOURCES) \cap PRM_RESOURCES(model)

\* the variable renewables of the margin, less the imported ones
prm_variable_renewable_resources_init(model) ==
    {r \in PRM_RESOURCES(model) \cap model.VARIABLE_RESOURCES :
        ~(/\ r \in TX_DELIVERABILITY_RESOURCES(model)
          /\ (model.import_on_existing_tx[r] \/ model.import_on_new_tx[r]))}

PRM_VARIABLE_RENEWABLE_RESOURCES(model) == prm_variable_renewable_resources_init(model)

\* the firm capacity resources of the margin, less the imported ones
prm_firm_capacity_resources_init(model) ==
    {r \in PRM_RESOURCES(model) :
        /\ model.firm_capacity[model.technology[r]]
        /\ ~(/\ r \in TX_DELIVERABILITY_RESOURCES(model)
             /\ (model.import_on_existing_tx[r] \/ model.import_on_new_tx[r]))}

PRM_FIRM_CAPACITY_RESOURCES(model) == prm_firm_capacity_resources_init(model)

PRM_STORAGE_RESOURCES(model) ==
    (PRM_RESOURCES(model) \cap model.STORAGE_RESOURCES) \ PRM_FIRM_CAPACITY_RESOURCES(model)

\* the resources counted with their net qualifying capacity
PRM_NQC_RESOURCES(model) ==
    PRM_FIRM_CAPACITY_RESOURCES(model) \cup PRM_STORAGE_RESOURCES(model)

\* 1 if the flag is set and 0 otherwise
Membership(flag) == IF flag THEN 1 ELSE 0

\* the number of representations the resource is counted under
planning_reserve_margin_resource_membership_init(model, resource) ==
    Membership(resource \in PRM_NQC_RESOURCES(model))
    + Membership(/\ resource \in PRM_VARIABLE_RENEWABLE_RESOURCES(model)
                 /\ model.elcc_solar_bin[resource])
    + Membership(/\ resource \in PRM_VARIABLE_RENEWABLE_RESOURCES(model)
                 /\ model.elcc_wind_bin[resource])
    + Membership(/\ resource \in TX_DELIVERABILITY_RESOURCES(model)
                 /\ model.import_on_existing_tx[resource])
    + Membership(/\ resource \in TX_DELIVERABILITY_RESOURCES(model)
                 /\ model.import_on_new_tx[resource])
    + Membership(resource \in model.EE_PROGRAMS)

\* a validator that accepts a resource counted more than once
planning_reserve_margin_resource_membership_validate_some(model, memberships, resource) ==
    memberships >= 1

\* the validator of prm_memberships
planning_reserve_margin_resource_membership_validate(model, memberships, resource) ==
    memberships = 1

(***************************************************************************)
(* The resource inputs of a scenario                                       *)
(***************************************************************************)
MaxCapacityPeriod == 3

\* a resource of a zone of the margin that no flag is set for: a hydro
\* resource, which is counted under none of the six representations
Hydro ==
    [zone |-> "prm_zone", load_only |-> FALSE, variable |-> FALSE,
     firm_capacity |-> FALSE, storage |-> FALSE, ee_program |-> FALSE,
     new_build |-> FALSE, rps_eligible |-> FALSE,
     import_on_existing_tx |-> FALSE, import_on_new_tx |-> FALSE,
     elcc_solar_bin |-> FALSE, elcc_wind_bin |-> FALSE]

\* the rows of the resource inputs for an existing resource
ExistingResources ==
    {Hydro,
     [Hydro EXCEPT !.firm_capacity = TRUE],
     [Hydro EXCEPT !.storage = TRUE],
     [Hydro EXCEPT !.variable = TRUE, !.elcc_solar_bin = TRUE],
     [Hydro EXCEPT !.variable = TRUE, !.elcc_wind_bin = TRUE],
     [Hydro EXCEPT !.variable = TRUE, !.elcc_solar_bin = TRUE, !.elcc_wind_bin = TRUE],
     [Hydro EXCEPT !.variable = TRUE],
     [Hydro EXCEPT !.ee_program = TRUE],
     [Hydro EXCEPT !.firm_capacity = TRUE, !.variable = TRUE, !.elcc_solar_bin = TRUE],
     [Hydro EXCEPT !.zone = "other_zone", !.variable = TRUE],
     [Hydro EXCEPT !.load_only = TRUE]}

\* a new solar resource of the margin, delivered within the zone
NewSolar ==
    [Hydro EXCEPT !.new_build = TRUE, !.rps_eligible = TRUE, !.variable = TRUE,
                  !.elcc_solar_bin = TRUE]

\* the rows of the resource inputs for a new resource
NewResources ==
    {NewSolar,
     [NewSolar EXCEPT !.import_on_existing_tx = TRUE],
     [NewSolar EXCEPT !.import_on_new_tx = TRUE],
     [NewSolar EXCEPT !.import_on_existing_tx = TRUE, !.import_on_new_tx = TRUE],
     [NewSolar EXCEPT !.elcc_solar_bin = FALSE],
     [NewSolar EXCEPT !.variable = FALSE, !.elcc_solar_bin = FALSE,
                      !.firm_capacity = TRUE],
     [NewSolar EXCEPT !.variable = FALSE, !.elcc_solar_bin = FALSE,
                      !.firm_capacity = TRUE, !.import_on_existing_tx = TRUE],
     [NewSolar EXCEPT !.rps_eligible = FALSE, !.variable = FALSE,
                      !.elcc_solar_bin = FALSE, !.firm_capacity = TRUE]}

\* the components that load_data reads from the rows of the resource inputs;
\* the flags are given for every resource, the rules read them for the
\* members of the index set of the Param alone, and the derived sets hold
\* what their initialisers compute
DataOf(rows) ==
    [RESOURCES |-> DOMAIN rows,
     zone |-> [r \in DOMAIN rows |-> rows[r].zone],
     include_in_prm |-> [z \in {"prm_zone", "other_zone"} |-> z = "prm_zone"],
     technology |-> [r \in DOMAIN rows |-> r],
     firm_capacity |-> [r \in DOMAIN rows |-> rows[r].firm_capacity],
     LOAD_ONLY_RESOURCES |-> {r \in DOMAIN rows : rows[r].load_only},
     FLEXIBLE_LOAD_RESOURCES |-> {},
     VARIABLE_RESOURCES |-> {r \in DOMAIN rows : rows[r].variable},
     STORAGE_RESOURCES |-> {r \in DOMAIN rows : rows[r].storage},
     EE_PROGRAMS |-> {r \in DOMAIN rows : rows[r].ee_program},
     NEW_BUILD_RESOURCES |-> {r \in DOMAIN rows : rows[r].new_build},
     RPS_ELIGIBLE_RESOURCES |-> {r \in DOMAIN rows : rows[r].rps_eligible},
     import_on_existing_tx |-> [r \in DOMAIN rows |-> rows[r].import_on_existing_tx],
     import_on_new_tx |-> [r \in DOMAIN rows |-> rows[r].import_on_new_tx],
     elcc_solar_bin |-> [r \in DOMAIN rows |-> rows[r].elcc_solar_bin],
     elcc_wind_bin |-> [r \in DOMAIN rows |-> rows[r].elcc_wind_bin]]

\* a scenario of one timepoint per period with a candidate for a new build
\* and an existing resource
CapacityData ==
    /\ TIMEPOINTS = 1..MaxCapacityPeriod
    /\ period = [t \in TIMEPOINTS |-> t]
    /\ day = [t \in TIMEPOINTS |-> 1]
    /\ \E candidate \in NewResources, existing \in ExistingResources :
          data = DataOf([r \in {"candidate", "existing"} |->
                            IF r = "candidate" THEN candidate ELSE existing])
    /\ prm_memberships = NotConstructed
    /\ instance = NotConstructed
    /\ CapacityNotSolved

\* create_instance constructs prm_memberships: a value that the validator
\* rejects raises an error, and no instance is returned
Construct_prm_memberships ==
    /\ pc = "indexed"
    /\ IF \A r \in PRM_RESOURCES(data) :
             planning_reserve_margin_resource_membership_validate(
                data, planning_reserve_margin_resource_membership_init(data, r), r)
       THEN /\ prm_memberships' =
                  [r \in PRM_RESOURCES(data) |->
                      planning_reserve_margin_resource_membership_init(data, r)]
            /\ pc' = "created"
       ELSE /\ pc' = "error"
            /\ UNCHANGED prm_memberships
    /\ UNCHANGED <<timeVars, commitVars, storageParams, storageVars, dispatchParams,
                   balanceVars, reserveParams, reserveVars, data, instance,
                   capacityVars, flexVars>>

(***************************************************************************)
(* New capacity and its split into fully deliverable and energy only       *)
(***************************************************************************)
\* VINTAGES is initialised as PERIODS is
VINTAGES == periods_init

first_period_init == Min(PERIODS)

None == "None"

find_prev_period(current_period) ==
    IF {q \in PERIODS : q < current_period} # {}
    THEN Max({q \in PERIODS : q < current_period})
    ELSE None

\* no resource of the scenario can be retired
CAN_RETIRE_RESOURCES_NEW == {}

operational_new_capacity_in_period_by_vintage_rule(model, resource, current_period, vintage) ==
    QSub(model.Build_Capacity_MW[resource, vintage],
         IF resource \in CAN_RETIRE_RESOURCES_NEW
         THEN model.Retire_New_Capacity_By_Vintage_Cumulative_MW[resource, current_period,
                                                                 vintage]
         ELSE Q(0))

\* the new capacity of the vintages up to the period that is still operational
operational_new_capacity_in_period_rule(model, resource, current_period) ==
    QSum([vintage \in {v \in VINTAGES : current_period >= v} |->
             operational_new_capacity_in_period_by_vintage_rule(model, resource,
                                                                current_period, vintage)],
         {v \in VINTAGES : current_period >= v})

\* the two shares together are at most the operational new capacity
deliverability_def_rule_at_most(model, resource, current_period) ==
    [lhs |-> QAdd(model.Fully_Deliverable_Installed_Capacity_MW[resource, current_period],
                  model.Energy_Only_Installed_Capacity_MW[resource, current_period]),
     sense |-> "<=",
     rhs |-> operational_new_capacity_in_period_rule(model, resource, current_period)]

deliverability_def_rule(model, resource, current_period) ==
    [lhs |-> QAdd(model.Fully_Deliverable_Installed_Capacity_MW[resource, current_period],
                  model.Energy_Only_Installed_Capacity_MW[resource, current_period]),
     sense |-> "==",
     rhs |-> operational_new_capacity_in_period_rule(model, resource, current_period)]

\* a rule that leaves the fully deliverable capacity free to decrease
fully_deliverable_period_build_rule_skipped(model, resource, current_period) == Skip

fully_deliverable_period_build_rule(model, resource, current_period) ==
    IF current_period = first_period_init THEN Skip
    ELSE [lhs |-> model.Fully_Deliverable_Installed_Capacity_MW[resource, current_period],
          sense |-> ">=",
          rhs |-> model.Fully_Deliverable_Installed_Capacity_MW[
                     resource, find_prev_period(current_period)]]

energy_only_period_build_rule(model, resource, current_period) ==
    IF current_period = first_period_init THEN Skip
    ELSE [lhs |-> model.Energy_Only_Installed_Capacity_MW[resource, current_period],
          sense |-> ">=",
          rhs |-> model.Energy_Only_Installed_Capacity_MW[
                     resource, find_prev_period(current_period)]]

\* the values the solver chooses the capacity variables of a period from:
\* a build of 0 or 50 MW per vintage, and shares of up to all the vintages
CapacityPeriodValues ==
    [build : [data.NEW_BUILD_RESOURCES -> {Q(0), Q(50)}],
     fully_deliverable : [TX_DELIVERABILITY_RESOURCES(data) ->
                             {Q(50 * k) : k \in 0..MaxCapacityPeriod}],
     energy_only : [TX_DELIVERABILITY_RESOURCES(data) ->
                       {Q(50 * k) : k \in 0..MaxCapacityPeriod}]]

\* the variables as a rule's argument `model`, from the values f of the periods
CapacityModelOf(f) ==
    [Build_Capacity_MW |->
        [i \in data.NEW_BUILD_RESOURCES \X DOMAIN f |-> f[i[2]].build[i[1]]],
     Fully_Deliverable_Installed_Capacity_MW |->
        [i \in TX_DELIVERABILITY_RESOURCES(data) \X DOMAIN f |->
            f[i[2]].fully_deliverable[i[1]]],
     Energy_Only_Installed_Capacity_MW |->
        [i \in TX_DELIVERABILITY_RESOURCES(data) \X DOMAIN f |->
            f[i[2]].energy_only[i[1]]]]

\* the values of the capacity variables, as a rule's argument `model`
CapacitySolution ==
    [Build_Capacity_MW |-> Build_Capacity_MW,
     Fully_Deliverable_Installed_Capacity_MW |-> Fully_Deliverable_Installed_Capacity_MW,
     Energy_Only_Installed_Capacity_MW |-> Energy_Only_Installed_Capacity_MW]

\* the deliverability constraints of a period hold
CapacityFeasible(model, current_period) ==
    \A r \in TX_DELIVERABILITY_RESOURCES(data) :
       /\ HoldsQ(deliverability_def_rule(model, r, current_period))
       /\ HoldsQ(fully_deliverable_period_build_rule(model, r, current_period))
       /\ HoldsQ(energy_only_period_build_rule(model, r, current_period))

\* the feasible values of the periods 1..n
RECURSIVE CapacitySolutions(_)
CapacitySolutions(n) ==
    IF n = 0 THEN {<<>>}
    ELSE {g \in {Extend(x[1], n, x[2]) :
                    x \in CapacitySolutions(n - 1) \X {w : w \in CapacityPeriodValues}} :
             CapacityFeasible(CapacityModelOf(g), n)}

\* The solver is called for a created instance and returns values that
\* satisfy the constraints.
Solve_Capacity ==
    /\ pc = "created"
    /\ \E f \in CapacitySolutions(Cardinality(PERIODS)) :
          \E m \in {CapacityModelOf(f)} :
             /\ Build_Capacity_MW' = m.Build_Capacity_MW
             /\ Fully_Deliverable_Installed_Capacity_MW' =
                   m.Fully_Deliverable_Installed_Capacity_MW
             /\ Energy_Only_Installed_Capacity_MW' = m.Energy_Only_Installed_Capacity_MW
    /\ pc' = "solved"
    /\ UNCHANGED <<timeVars, commitVars, storageParams, storageVars, dispatchParams,
                   balanceVars, reserveParams, reserveVars, prmVars, flexVars>>

InitCapacity ==
    /\ pc = "PERIODS"
    /\ CapacityData
    /\ IndexNotConstructed
    /\ CommitNotSolved
    /\ NoStorage
    /\ NoDispatch
    /\ NoReserves
    /\ NoFlexible

NextCapacity ==
    \/ BuildIndex
    \/ Construct_prm_memberships
    \/ Solve_Capacity

SpecCapacity == InitCapacity /\ [][NextCapacity]_vars

\* the representations of the planning reserve margin the resource is counted under
Representations(model, resource) ==
    {x \in {"NQC", "solar ELCC bin", "wind ELCC bin", "import on existing transmission",
            "import on new transmission", "EE program"} :
        CASE x = "NQC" -> resource \in PRM_NQC_RESOURCES(model)
          [] x = "solar ELCC bin" ->
                /\ resource \in PRM_VARIABLE_RENEWABLE_RESOURCES(model)
                /\ model.elcc_solar_bin[resource]
          [] x = "wind ELCC bin" ->
                /\ resource \in PRM_VARIABLE_RENEWABLE_RESOURCES(model)
                /\ model.elcc_wind_bin[resource]
          [] x = "import on existing transmission" ->
                /\ resource \in TX_DELIVERABILITY_RESOURCES(model)
                /\ model.import_on_existing_tx[resource]
          [] x = "import on new transmission" ->
                /\ resource \in TX_DELIVERABILITY_RESOURCES(model)
                /\ model.import_on_new_tx[resource]
          [] x = "EE program" -> resource \in model.EE_PROGRAMS}

\* C9: the instance is created only if every resource of PRM_RESOURCES is
\* counted under exactly one representation (NQC, solar ELCC bin, wind ELCC
\* bin, import on existing transmission, import on new transmission, EE
\* program); with a resource counted under none or under more than one, the
\* construction aborts and no solve is attempted.
C9_ExactlyOneRepresentation ==
    /\ pc \in {"created", "solved"}
          => \A r \in PRM_RESOURCES(data) :
                /\ Cardinality(Representations(data, r)) = 1
                /\ prm_memberships[r] = 1
    /\ (/\ pc \in {"created", "error", "solved"}
        /\ \E r \in PRM_RESOURCES(data) : Cardinality(Representations(data, r)) # 1)
          => /\ pc = "error"
             /\ prm_memberships = NotConstructed
             /\ CapacityNotSolved

\* the construction has aborted for a new resource counted as an import on
\* existing and on new transmission beside a hydro resource counted under
\* no representation
C9_Witness ==
    /\ pc = "error"
    /\ Representations(data, "candidate")
          = {"import on existing transmission", "import on new transmission"}
    /\ "existing" \in PRM_RESOURCES(data)
    /\ Representations(data, "existing") = {}

\* C10: in every feasible solution, for every resource of
\* TX_DELIVERABILITY_RESOURCES and every period, the fully deliverable and
\* the energy only installed capacity add up to the operational new capacity
\* of the resource in the period.
C10_DeliverabilitySplit ==
    pc = "solved"
       => \A r \in TX_DELIVERABILITY_RESOURCES(data), p \in PERIODS :
             QEq(QAdd(Fully_Deliverable_Installed_Capacity_MW[r, p],
                      Energy_Only_Installed_Capacity_MW[r, p]),
                 QSum([v \in {x \in PERIODS : x <= p} |-> Build_Capacity_MW[r, v]],
                      {x \in PERIODS : x <= p}))

\* a solution that builds 50 MW in each of two vintages and has one half of
\* the 100 MW fully deliverable and the other half energy only
C10_Witness ==
    /\ pc = "solved"
    /\ \E r \in TX_DELIVERABILITY_RESOURCES(data), p \in PERIODS :
          /\ \E v \in PERIODS : v < p /\ QEq(Build_Capacity_MW[r, v], Q(50))
          /\ QEq(Build_Capacity_MW[r, p], Q(50))
          /\ QEq(operational_new_capacity_in_period_rule(CapacitySolution, r, p), Q(100))
          /\ QEq(Fully_Deliverable_Installed_Capacity_MW[r, p], Q(50))
          /\ QEq(Energy_Only_Installed_Capacity_MW[r, p], Q(50))

\* C11: in every feasible solution, for every resource of
\* TX_DELIVERABILITY_RESOURCES and any two periods p < q, adjacent or not,
\* the fully deliverable installed capacity of p is at most that of q and
\* the energy only installed capacity of p is at most that of q.
C11_SharesNeverDecrease ==
    pc = "solved"
       => \A r \in TX_DELIVERABILITY_RESOURCES(data), p \in PERIODS, q \in PERIODS :
             p < q
                => /\ QLe(Fully_Deliverable_Installed_Capacity_MW[r, p],
                          Fully_Deliverable_Installed_Capacity_MW[r, q])
                   /\ QLe(Energy_Only_Installed_Capacity_MW[r, p],
                          Energy_Only_Installed_Capacity_MW[r, q])

\* a solution over three periods in which both shares grow from the first
\* period to the third, with a period in between
C11_Witness ==
    /\ pc = "solved"
    /\ \E r \in TX_DELIVERABILITY_RESOURCES(data), p \in PERIODS, q \in PERIODS :
          /\ \E between \in PERIODS : p < between /\ between < q
          /\ QEq(Fully_Deliverable_Installed_Capacity_MW[r, p], Q(0))
          /\ QEq(Fully_Deliverable_Installed_Capacity_MW[r, q], Q(50))
          /\ QEq(Energy_Only_Installed_Capacity_MW[r, p], Q(50))
          /\ QEq(Energy_Only_Installed_Capacity_MW[r, q], Q(100))

(***************************************************************************)
(* Flexible parameters: data is the dictionary of the DataPortal, from the *)
(* name of a parameter to the values of its indices.  A cell of the table  *)
(* is text; a value is written with its Python type, as in "float:5.0".   *)
(* A parser returns the dictionary and the exception it raised, if any.   *)
(***************************************************************************)
\* the text is a numeral that int() converts
IsNumeral(text) == \E n \in 0..9 : ToString(n) = text

\* int(text) of a numeral
int(text) == CHOOSE n \in 0..9 : ToString(n) = text

\* the elements of a set of numbers in ascending order
RECURSIVE Ascending(_)
Ascending(S) == IF S = {} THEN <<>> ELSE <<Min(S)>> \o Ascending(S \ {Min(S)})

\* data with the value bound to the key of the parameter
Bind(d, param, key, value) ==
    [d EXCEPT ![param] = Extend(d[param], key, value)]

Parsed(d) == [data |-> d, error |-> None]

Raised(d, exception) == [data |-> d, error |-> exception]

\* the loop over range(hour_of_day_from, hour_of_day_to + 1) from hour_of_day on
RECURSIVE parse_timepoint_hours(_, _, _, _, _)
parse_timepoint_hours(d, timepoint_mapping, index, hour_of_day, value) ==
    LET timepoint_to_use ==
            {t \in DOMAIN timepoint_mapping :
                /\ timepoint_mapping[t].PERIODS = int(index.period)
                /\ timepoint_mapping[t].DAYS = int(index.day)
                /\ timepoint_mapping[t].HOURS_OF_DAY = hour_of_day}
    IN  IF hour_of_day > int(index.hour_of_day_to) THEN Parsed(d)
        ELSE IF Cardinality(timepoint_to_use) > 1 THEN Raised(d, "ValueError")
        ELSE IF timepoint_to_use = {} THEN Raised(d, "IndexError")
        ELSE parse_timepoint_hours(
                Bind(d, index.param,
                     <<index.model_object, CHOOSE t \in timepoint_to_use : TRUE>>, value),
                timepoint_mapping, index, hour_of_day + 1, value)

parse_timepoint_param(d, timepoint_mapping, index, value) ==
    IF \/ ~IsNumeral(index.hour_of_day_from)
       \/ ~IsNumeral(index.hour_of_day_to)
       \/ ~IsNumeral(index.day)
       \/ ~IsNumeral(index.period)
    THEN Raised(d, "ValueError")
    ELSE parse_timepoint_hours(d, timepoint_mapping, index, int(index.hour_of_day_from),
                               value)

parse_period_param(d, index, value) ==
    IF ~IsNumeral(index.period) THEN Raised(d, "ValueError")
    ELSE Parsed(Bind(d, index.param, <<index.model_object, int(index.period)>>, value))

parse_model_object_param(d, index, value) ==
    Parsed(Bind(d, index.param, <<index.model_object>>, value))

\* the timepoints with their period, day and hour of day, and the unique
\* values of each (the months are read by no parser)
create_timepoint_mapping(d) ==
    [timepoint_mapping |->
        [t \in DOMAIN d["period"] |->
            [PERIODS |-> d["period"][t], DAYS |-> d["day"][t],
             HOURS_OF_DAY |-> d["hour_of_day"][t]]],
     sets |->
        [PERIODS |-> {d["period"][t] : t \in DOMAIN d["period"]},
         DAYS |-> {d["day"][t] : t \in DOMAIN d["day"]},
         HOURS |-> {d["hour_of_day"][t] : t \in DOMAIN d["hour_of_day"]}]]

\* parse_timepoint_param for each (period, day) of the sequence in turn,
\* up to the first exception
RECURSIVE parse_timepoint_days(_, _, _, _, _)
parse_timepoint_days(d, timepoint_mapping, index, days, value) ==
    IF days = <<>> THEN Parsed(d)
    ELSE LET parsed == parse_timepoint_param(
                          d, timepoint_mapping,
                          [index EXCEPT !.period = days[1][1], !.day = days[1][2]], value)
         IN  IF parsed.error # None THEN parsed
             ELSE parse_timepoint_days(parsed.data, timepoint_mapping, index, Tail(days),
                                       value)

\* parse_period_param for each period of the sequence in turn
RECURSIVE parse_period_params(_, _, _, _)
parse_period_params(d, index, periods, value) ==
    IF periods = <<>> THEN Parsed(d)
    ELSE parse_period_params(
            parse_period_param(d, [index EXCEPT !.period = ToString(periods[1])],
                               value).data,
            index, Tail(periods), value)

\* the (period, day) pairs of two sequences, the days of a period together
Pairs(periods, days) ==
    [i \in 1..(Len(periods) * Len(days)) |->
        <<periods[((i - 1) \div Len(days)) + 1], days[((i - 1) % Len(days)) + 1]>>]

\* the numerals of a set of numbers, in ascending order (the order a set of
\* small integers is iterated in)
Numerals(S) == [i \in 1..Cardinality(S) |-> ToString(Ascending(S)[i])]

\* the value of a cell: a float is kept, the texts True and False are
\* converted with bool(), which is True for every text that is not empty,
\* and any other text is converted with float() if it is a number
convert(value) ==
    IF value.type = "float" THEN value
    ELSE IF value.text \in {"True", "False"} THEN [type |-> "bool", text |-> "True"]
    ELSE IF IsNumeral(value.text) THEN [type |-> "float", text |-> value.text \o ".0"]
    ELSE value

\* a check that accepts every hour
hour_range_is_valid_always(sets, index) == FALSE

\* hour_of_day_from or hour_of_day_to is not in the set of HOURS
hour_range_is_invalid(sets, index) ==
    \/ int(index.hour_of_day_from) \notin sets.HOURS
    \/ int(index.hour_of_day_to) \notin sets.HOURS

\* the body of the loop over the rows of flexible_params
parse_flexible_row(d, timepoint_mapping, sets, index, value) ==
    IF /\ index.period = "None" /\ index.day = "None"
       /\ index.hour_of_day_from = "None" /\ index.hour_of_day_to = "None"
    THEN parse_model_object_param(d, index, value)
    ELSE IF /\ index.period # "None" /\ index.day = "None"
            /\ index.hour_of_day_from = "None" /\ index.hour_of_day_to = "None"
    THEN IF index.period = "All"
         THEN parse_period_params(d, index, Ascending(sets.PERIODS), value)
         ELSE parse_period_param(d, index, value)
    ELSE IF ~IsNumeral(index.hour_of_day_from) \/ ~IsNumeral(index.hour_of_day_to)
    THEN Raised(d, "ValueError")
    ELSE IF hour_range_is_invalid(sets, index)
    THEN Raised(d, "ValueError")
    ELSE IF index.day = "All" /\ index.period = "All"
    THEN parse_timepoint_days(d, timepoint_mapping, index,
                              Pairs(Numerals(sets.PERIODS), Numerals(sets.DAYS)), value)
    ELSE IF index.day = "All" /\ index.period # "All"
    THEN parse_timepoint_days(d, timepoint_mapping, index,
                              Pairs(<<index.period>>, Numerals(sets.DAYS)), value)
    ELSE IF index.day # "All" /\ index.period = "All"
    THEN parse_timepoint_days(d, timepoint_mapping, index,
                              Pairs(Numerals(sets.PERIODS), <<index.day>>), value)
    ELSE parse_timepoint_param(d, timepoint_mapping, index, value)

(***************************************************************************)
(* The inputs of parse_flexible_params                                     *)
(***************************************************************************)
MaxOverridePeriod == 2
MaxOverrideDay == 2
MaxOverrideHour == 2

\* the period, the day and the hour of day of the timepoints of a scenario
\* with every hour of every day of every period, numbered in that order
GridTimepoint(i) ==
    [period |-> ((i - 1) \div (MaxOverrideDay * MaxOverrideHour)) + 1,
     day |-> (((i - 1) \div MaxOverrideHour) % MaxOverrideDay) + 1,
     hour_of_day |-> ((i - 1) % MaxOverrideHour) + 1]

GridSize == MaxOverridePeriod * MaxOverrideDay * MaxOverrideHour

\* the timepoint data: the whole grid; the grid without the last hour of the
\* first day; the grid without the last day of the last period; the grid and
\* a second timepoint for its first hour
TimepointMaps ==
    {[t \in 1..GridSize |-> GridTimepoint(t)],
     [t \in (1..GridSize) \ {MaxOverrideHour} |-> GridTimepoint(t)],
     [t \in 1..(GridSize - MaxOverrideHour) |-> GridTimepoint(t)],
     [t \in 1..(GridSize + 1) |-> GridTimepoint(IF t > GridSize THEN 1 ELSE t)]}

\* the hours a row names: those of the grid and one beyond
HourTexts == {ToString(h) : h \in 1..(MaxOverrideHour + 1)}

float(text) == [type |-> "float", text |-> text]

str(text) == [type |-> "str", text |-> text]

FlexibleRow(param, period_text, day_text, hour_of_day_from, hour_of_day_to, value) ==
    [index |-> [param |-> param, model_object |-> "zone", period |-> period_text,
                day |-> day_text, hour_of_day_from |-> hour_of_day_from,
                hour_of_day_to |-> hour_of_day_to],
     value |-> value]

\* rows for a range of hours, among them ranges without a period
TimepointRangeRows ==
    {FlexibleRow("input_load_mw", x[1][1], x[1][2], x[2], x[3], float("5.0")) :
        x \in {<<"All", "All">>, <<"1", "All">>, <<"All", "1">>, <<"1", "1">>,
               <<"None", "1">>} \X HourTexts \X HourTexts}
    \cup {FlexibleRow("input_load_mw", "All", "All", "None", "1", float("5.0"))}

\* rows for a model object and rows for a model object and a period
ObjectRows ==
    {FlexibleRow(x[1], "None", "None", "None", "None", x[2]) :
        x \in {"input_load_mw", "maintenance_derate"}
                 \X {float("5.0"), str("5"), str("False"), str("True")}}
    \cup {FlexibleRow("maintenance_derate", period_text, "None", "None", "None",
                      float("5.0")) : period_text \in {"All", "1"}}

\* the tables: a row, or one of three rows and a second row after it
FlexibleTables ==
    {<<row>> : row \in TimepointRangeRows \cup ObjectRows}
    \cup {<<x[1], x[2]>> :
             x \in {FlexibleRow("maintenance_derate", "None", "None", "None", "None",
                                float("5.0")),
                    FlexibleRow("input_load_mw", "All", "All", "1", "1", float("7.0")),
                    FlexibleRow("input_load_mw", "1", "1", "1", "1", float("7.0"))}
                      \X (TimepointRangeRows \cup ObjectRows)}

\* the dictionary after the tabular loads: the timepoint data, and the
\* parameters of `loaded` with a value for every timepoint of the zone
LoadedData(timepoints, loaded) ==
    [param \in {"period", "day", "hour_of_day"} \cup loaded |->
        CASE param = "period" -> [t \in DOMAIN timepoints |-> timepoints[t].period]
          [] param = "day" -> [t \in DOMAIN timepoints |-> timepoints[t].day]
          [] param = "hour_of_day" ->
                [t \in DOMAIN timepoints |-> timepoints[t].hour_of_day]
          [] OTHER -> [i \in {"zone"} \X DOMAIN timepoints |-> float("100.0")]]

FlexibleData ==
    /\ \E timepoints \in TimepointMaps,
          loaded \in SUBSET {"input_load_mw", "maintenance_derate"} :
          /\ data = LoadedData(timepoints, loaded)
          /\ TIMEPOINTS = DOMAIN timepoints
          /\ period = [t \in DOMAIN timepoints |-> timepoints[t].period]
          /\ day = [t \in DOMAIN timepoints |-> timepoints[t].day]
    /\ flexible_params \in FlexibleTables
    /\ flexible_row = 1
    /\ prm_memberships = NotConstructed
    /\ instance = NotConstructed
    /\ CapacityNotSolved

\* flexible_params.index.unique(level=0): the parameters of the table, each
\* once, in the order of their first rows
RECURSIVE unique(_)
unique(params) ==
    IF params = <<>> THEN <<>>
    ELSE <<params[1]>> \o unique(SelectSeq(Tail(params), LAMBDA x : x # params[1]))

params_to_create ==
    unique([j \in DOMAIN flexible_params |-> flexible_params[j].index.param])

\* the first loop of parse_flexible_params: an empty dictionary for each
\* parameter of the table, up to the first that is already loaded
\* a first loop that replaces the values of a loaded parameter
create_params_overwrite(d, params) ==
    Parsed([param \in DOMAIN d \cup {params[i] : i \in DOMAIN params} |->
               IF \E i \in DOMAIN params : params[i] = param THEN <<>> ELSE d[param]])

RECURSIVE create_params(_, _)
create_params(d, params) ==
    IF params = <<>> THEN Parsed(d)
    ELSE IF params[1] \in DOMAIN d THEN Raised(d, "AttributeError")
    ELSE create_params(Extend(d, params[1], <<>>), Tail(params))

Create_Flexible_Params ==
    /\ pc = "flexible_params"
    /\ \E created \in {create_params(data, params_to_create)} :
          /\ data' = created.data
          /\ pc' = IF created.error = None THEN "rows" ELSE created.error
    /\ UNCHANGED <<timeVars, commitVars, storageParams, storageVars, dispatchParams,
                   balanceVars, reserveParams, reserveVars, prm_memberships,
                   instance, capacityVars, flexVars>>

\* one pass of the loop over the rows of flexible_params
Parse_Flexible_Row ==
    /\ pc = "rows"
    /\ \E parsed \in {parse_flexible_row(data, create_timepoint_mapping(data).timepoint_mapping,
                                         create_timepoint_mapping(data).sets,
                                         flexible_params[flexible_row].index,
                                         convert(flexible_params[flexible_row].value))} :
          /\ data' = parsed.data
          /\ pc' = IF parsed.error # None THEN parsed.error
                   ELSE IF flexible_row = Len(flexible_params) THEN "parsed" ELSE "rows"
    /\ flexible_row' = flexible_row + 1
    /\ UNCHANGED <<timeVars, commitVars, storageParams, storageVars, dispatchParams,
                   balanceVars, reserveParams, reserveVars, prm_memberships,
                   instance, capacityVars, flexible_params>>

InitFlexible ==
    /\ pc = "flexible_params"
    /\ FlexibleData
    /\ IndexNotConstructed
    /\ CommitNotSolved
    /\ NoStorage
    /\ NoDispatch
    /\ NoReserves

NextFlexible ==
    \/ Create_Flexible_Params
    \/ Parse_Flexible_Row

SpecFlexible == InitFlexible /\ [][NextFlexible]_vars

\* the index names a range of timepoints: it is neither for a model object
\* alone nor for a model object and a period alone
IsTimepointRange(index) ==
    /\ ~(/\ index.period = "None" /\ index.day = "None"
         /\ index.hour_of_day_from = "None" /\ index.hour_of_day_to = "None")
    /\ ~(/\ index.period # "None" /\ index.day = "None"
         /\ index.hour_of_day_from = "None" /\ index.hour_of_day_to = "None")

\* the hours of day of the timepoint data
HOURS_OF_DAY == {data["hour_of_day"][t] : t \in DOMAIN data["hour_of_day"]}

\* the text names an hour of HOURS_OF_DAY
IsHourOfDay(text) == IsNumeral(text) /\ int(text) \in HOURS_OF_DAY

Exceptions == {"AttributeError", "ValueError", "IndexError"}

\* C12: when a parameter of the table of flexible parameters is already
\* bound by a tabular load, binding the flexible parameters fails with an
\* error and every value bound before is kept: no row is parsed.
C12_DuplicateDefinitionFails ==
    [][(/\ pc = "flexible_params"
        /\ \E j \in DOMAIN flexible_params : flexible_params[j].index.param \in DOMAIN data)
          => /\ pc' = "AttributeError"
             /\ \A param \in DOMAIN data : data'[param] = data[param]
             /\ flexible_row' = 1]_vars

\* the binding has failed at the second parameter of the table, which is
\* loaded, after an empty dictionary was created for the first
C12_Witness ==
    /\ pc = "AttributeError"
    /\ Len(flexible_params) = 2
    /\ data[flexible_params[1].index.param] = <<>>
    /\ data[flexible_params[2].index.param]
          = [i \in {"zone"} \X TIMEPOINTS |-> float("100.0")]

\* C13: a row for a range of timepoints whose hour_of_day_from or
\* hour_of_day_to is not in the HOURS_OF_DAY of the timepoint data fails
\* with an error and binds no value; a table with such a row is never
\* parsed to its end.
C13_HourOutsideDomainFails ==
    [][/\ (/\ pc = "rows"
           /\ IsTimepointRange(flexible_params[flexible_row].index)
           /\ \/ ~IsHourOfDay(flexible_params[flexible_row].index.hour_of_day_from)
              \/ ~IsHourOfDay(flexible_params[flexible_row].index.hour_of_day_to))
             => /\ pc' \in Exceptions
                /\ data' = data
       /\ pc' = "parsed"
             => \A j \in DOMAIN flexible_params :
                   IsTimepointRange(flexible_params[j].index)
                      => /\ IsHourOfDay(flexible_params[j].index.hour_of_day_from)
                         /\ IsHourOfDay(flexible_params[j].index.hour_of_day_to)]_vars

\* the second row names an hour beyond those of the timepoint data as the
\* end of its range; the values of the first row are bound, and the parse
\* has failed at the second row
C13_Witness ==
    /\ pc = "ValueError"
    /\ flexible_row = 3
    /\ flexible_params[2].index.period = "All"
    /\ flexible_params[2].index.day = "All"
    /\ IsHourOfDay(flexible_params[2].index.hour_of_day_from)
    /\ IsNumeral(flexible_params[2].index.hour_of_day_to)
    /\ ~IsHourOfDay(flexible_params[2].index.hour_of_day_to)
    /\ \E i \in DOMAIN data["input_load_mw"] : data["input_load_mw"][i] = float("7.0")
    /\ \A i \in DOMAIN data["input_load_mw"] : data["input_load_mw"][i] # float("5.0")

\* the row that is parsed next is for hours hour_of_day_from <= hour_of_day_to
\* of HOURS_OF_DAY, in every period and every day
IsAllDaysRange(index) ==
    /\ index.period = "All"
    /\ index.day = "All"
    /\ IsHourOfDay(index.hour_of_day_from)
    /\ IsHourOfDay(index.hour_of_day_to)
    /\ int(index.hour_of_day_from) <= int(index.hour_of_day_to)

\* the keys of the timepoints whose hour of day is in the range of the index
KeysInRange(index) ==
    {<<index.model_object, t>> :
        t \in {u \in DOMAIN data["hour_of_day"] :
                  /\ int(index.hour_of_day_from) <= data["hour_of_day"][u]
                  /\ data["hour_of_day"][u] <= int(index.hour_of_day_to)}}

\* the step binds the value of the row at the keys in its range and leaves
\* every other key of the parameter as it was
BindsExactlyInRange(row) ==
    /\ pc' \notin Exceptions
    /\ \A k \in KeysInRange(row.index) :
          /\ k \in DOMAIN data'[row.index.param]
          /\ data'[row.index.param][k] = convert(row.value)
    /\ \A k \in (DOMAIN data'[row.index.param]) \ KeysInRange(row.index) :
          /\ k \in DOMAIN data[row.index.param]
          /\ data'[row.index.param][k] = data[row.index.param][k]

\* every hour of the range has exactly one timepoint in every day of DAYS
\* of every period of PERIODS
EveryHourHasItsTimepoint(index) ==
    \A p \in {data["period"][t] : t \in DOMAIN data["period"]},
       d \in {data["day"][t] : t \in DOMAIN data["day"]},
       h \in int(index.hour_of_day_from)..int(index.hour_of_day_to) :
          Cardinality({t \in DOMAIN data["period"] :
                          /\ data["period"][t] = p
                          /\ data["day"][t] = d
                          /\ data["hour_of_day"][t] = h}) = 1

\* C14 as stated: a row with period "All", day "All" and bounds
\* hour_of_day_from <= hour_of_day_to of HOURS_OF_DAY binds its value at
\* exactly the timepoints whose hour_of_day is within the bounds, in every
\* (period, day) pair, and at no other timepoint.
C14_BindsEveryTimepointInRange ==
    [][(pc = "rows" /\ IsAllDaysRange(flexible_params[flexible_row].index))
          => BindsExactlyInRange(flexible_params[flexible_row])]_vars

\* C14, where the code meets it: the row binds its value at exactly those
\* timepoints when every hour of the range has exactly one timepoint in
\* every day of every period; when an hour has no timepoint in some day of
\* some period, or more than one, the parse fails with an error.
C14_BindsWhereEveryHourHasItsTimepoint ==
    [][(pc = "rows" /\ IsAllDaysRange(flexible_params[flexible_row].index))
          => IF EveryHourHasItsTimepoint(flexible_params[flexible_row].index)
             THEN BindsExactlyInRange(flexible_params[flexible_row])
             ELSE pc' \in {"IndexError", "ValueError"}]_vars

\* a row for the hours 1 to 2 of every day is bound at every timepoint of
\* the whole grid, which has more than one period and more than one day
C14_Witness ==
    /\ pc = "parsed"
    /\ Len(flexible_params) = 1
    /\ IsAllDaysRange(flexible_params[1].index)
    /\ flexible_params[1].index.hour_of_day_from = "1"
    /\ flexible_params[1].index.hour_of_day_to = "2"
    /\ Cardinality({data["period"][t] : t \in TIMEPOINTS}) > 1
    /\ Cardinality({data["day"][t] : t \in TIMEPOINTS}) > 1
    /\ DOMAIN data["input_load_mw"] = KeysInRange(flexible_params[1].index)
    /\ \A k \in DOMAIN data["input_load_mw"] : data["input_load_mw"][k] = float("5.0")

\* the parse has failed at a row for the hours 1 to 2 of every day: the
\* first day has no timepoint for its last hour, the value is bound at the
\* timepoint before it and at no timepoint of the days after it
C14_Failure ==
    /\ pc = "IndexError"
    /\ Len(flexible_params) = 1
    /\ IsAllDaysRange(flexible_params[1].index)
    /\ flexible_params[1].index.hour_of_day_from = "1"
    /\ flexible_params[1].index.hour_of_day_to = "2"
    /\ DOMAIN data["input_load_mw"] = {<<"zone", 1>>}
    /\ Cardinality(KeysInRange(flexible_params[1].index)) > 1

\* a pair of a period and a day of the timepoint data that no timepoint has
HasDayWithoutTimepoints ==
    \E tp \in TIMEPOINTS, td \in TIMEPOINTS :
       ~\E t \in TIMEPOINTS : period[t] = period[tp] /\ day[t] = day[td]

\* C15: the construction of the index raises an error if a (period, day)
\* pair of PERIODS and DAYS has zero timepoints: once first_timepoint_of_day
\* has been constructed, such timepoint data has ended in the error, with
\* no first, last, previous or next timepoint defined.
C15_DayWithoutTimepointsRaises ==
    (/\ pc \notin {"PERIODS", "DAYS", "first_timepoint_of_day"}
     /\ HasDayWithoutTimepoints)
       => /\ pc = "error"
          /\ first_timepoint_of_day = NotConstructed
          /\ last_timepoint_of_day = NotConstructed
          /\ previous_timepoint = NotConstructed
          /\ next_timepoint = NotConstructed

\* the construction has ended in the error for two periods with a day each:
\* the day of the one has no timepoints in the other
C15_Witness ==
    /\ pc = "error"
    /\ Cardinality(PERIODS) = 2
    /\ Cardinality(DAYS) = 2
    /\ Cardinality(TIMEPOINTS) = 2
    /\ HasDayWithoutTimepoints

(***************************************************************************)
(* RPS banking.  An Expression of the instance is kept as written: a       *)
(* constant and a coefficient for each Bank_RPS_MWh[period] it multiplies. *)
(***************************************************************************)
MaxBankingPeriod == 3

rps_starting_input_validate(model, starting_bank) ==
    IF ~model.optimize_rps_banking THEN QEq(starting_bank, Q(0))
    ELSE QLe(Q(0), starting_bank)

rps_planned_spend_input_validate(model, planned_spend, current_period) ==
    IF model.optimize_rps_banking THEN QEq(planned_spend, Q(0))
    ELSE QLe(Q(0), planned_spend)

\* an expression that adds the bank of the previous period to the planned
\* spending when the banking is not optimized
define_previously_banked_rps_carried(model, current_period) ==
    IF ~model.optimize_rps_banking
    THEN [constant |-> model.rps_bank_planned_spend_mwh[current_period],
          Bank_RPS_MWh |->
             IF current_period = first_period_init THEN <<>>
             ELSE Extend(<<>>, find_prev_period(current_period), Q(1))]
    ELSE IF current_period = first_period_init
    THEN [constant |-> QDiv(model.starting_rps_bank_mwh,
                            model.years_in_period[current_period]),
          Bank_RPS_MWh |-> <<>>]
    ELSE [constant |-> Q(0),
          Bank_RPS_MWh |->
             Extend(<<>>, find_prev_period(current_period),
                    QDiv(model.years_in_period[find_prev_period(current_period)],
                         model.years_in_period[current_period]))]

\* an expression that carries the bank forward without the years of the periods
define_previously_banked_rps_unscaled(model, current_period) ==
    IF ~model.optimize_rps_banking
    THEN [constant |-> model.rps_bank_planned_spend_mwh[current_period],
          Bank_RPS_MWh |-> <<>>]
    ELSE IF current_period = first_period_init
    THEN [constant |-> QDiv(model.starting_rps_bank_mwh,
                            model.years_in_period[current_period]),
          Bank_RPS_MWh |-> <<>>]
    ELSE [constant |-> Q(0),
          Bank_RPS_MWh |-> Extend(<<>>, find_prev_period(current_period), Q(1))]

\* the RPS credits of the previous period's bank, or the planned spending
define_previously_banked_rps(model, current_period) ==
    IF ~model.optimize_rps_banking
    THEN [constant |-> model.rps_bank_planned_spend_mwh[current_period],
          Bank_RPS_MWh |-> <<>>]
    ELSE IF current_period = first_period_init
    THEN [constant |-> QDiv(model.starting_rps_bank_mwh,
                            model.years_in_period[current_period]),
          Bank_RPS_MWh |-> <<>>]
    ELSE [constant |-> Q(0),
          Bank_RPS_MWh |->
             Extend(<<>>, find_prev_period(current_period),
                    QDiv(model.years_in_period[find_prev_period(current_period)],
                         model.years_in_period[current_period]))]

\* the value of an expression for the values of Bank_RPS_MWh
Value(expression, bank) ==
    QAdd(expression.constant,
         QSum([q \in DOMAIN expression.Bank_RPS_MWh |->
                  QMul(bank[q], expression.Bank_RPS_MWh[q])],
              DOMAIN expression.Bank_RPS_MWh))

\* a scenario of one timepoint per period, the periods any of
\* 1..MaxBankingPeriod, with the inputs of the RPS bank
BankingData ==
    /\ TIMEPOINTS \in (SUBSET (1..MaxBankingPeriod)) \ {{}}
    /\ period = [t \in TIMEPOINTS |-> t]
    /\ day = [t \in TIMEPOINTS |-> 1]
    /\ data \in [optimize_rps_banking : BOOLEAN,
                 starting_rps_bank_mwh : {Q(0), Q(10)},
                 rps_bank_planned_spend_mwh : [TIMEPOINTS -> {Q(0), Q(5)}],
                 years_in_period : [TIMEPOINTS -> {Q(0), Q(1), Q(2)}]]
    /\ prm_memberships = NotConstructed
    /\ instance = NotConstructed
    /\ CapacityNotSolved

\* create_instance validates starting_rps_bank_mwh and
\* rps_bank_planned_spend_mwh and constructs Previously_Banked_RPS_MWh; a
\* rejected value and a division by years_in_period of 0 raise an error
Construct_Previously_Banked_RPS_MWh ==
    /\ pc = "indexed"
    /\ IF /\ rps_starting_input_validate(data, data.starting_rps_bank_mwh)
          /\ \A p \in PERIODS :
                rps_planned_spend_input_validate(data, data.rps_bank_planned_spend_mwh[p], p)
          /\ data.optimize_rps_banking
                => \A p \in PERIODS : ~QEq(data.years_in_period[p], Q(0))
       THEN /\ instance' = [Previously_Banked_RPS_MWh |->
                               [p \in PERIODS |-> define_previously_banked_rps(data, p)]]
            /\ pc' = "created"
       ELSE /\ pc' = "error"
            /\ UNCHANGED instance
    /\ UNCHANGED <<timeVars, commitVars, storageParams, storageVars, dispatchParams,
                   balanceVars, reserveParams, reserveVars, data, prm_memberships,
                   capacityVars, flexVars>>

\* The solver returns nonnegative values of Bank_RPS_MWh.
Solve_RPS_Banking ==
    /\ pc = "created"
    /\ \E bank \in [PERIODS -> {Q(0), Q(4)}] :
          instance' = [Previously_Banked_RPS_MWh |-> instance.Previously_Banked_RPS_MWh,
                       Bank_RPS_MWh |-> bank]
    /\ pc' = "solved"
    /\ UNCHANGED <<timeVars, commitVars, storageParams, storageVars, dispatchParams,
                   balanceVars, reserveParams, reserveVars, data, prm_memberships,
                   capacityVars, flexVars>>

InitBanking ==
    /\ pc = "PERIODS"
    /\ BankingData
    /\ IndexNotConstructed
    /\ CommitNotSolved
    /\ NoStorage
    /\ NoDispatch
    /\ NoReserves
    /\ NoFlexible

NextBanking ==
    \/ BuildIndex
    \/ Construct_Previously_Banked_RPS_MWh
    \/ Solve_RPS_Banking

SpecBanking == InitBanking /\ [][NextBanking]_vars

\* C16: when optimize_rps_banking is false, Previously_Banked_RPS_MWh of
\* every period is rps_bank_planned_spend_mwh of the period: the expression
\* has no Bank_RPS_MWh of any period in it and no starting_rps_bank_mwh,
\* and its value is the planned spending whatever the solver banks.
C16_PlannedSpendWithoutBanking ==
    (pc \in {"created", "solved"} /\ ~data.optimize_rps_banking)
       => \A p \in PERIODS :
             /\ instance.Previously_Banked_RPS_MWh[p].Bank_RPS_MWh = <<>>
             /\ instance.Previously_Banked_RPS_MWh[p].constant
                   = data.rps_bank_planned_spend_mwh[p]
             /\ pc = "solved"
                   => QEq(Value(instance.Previously_Banked_RPS_MWh[p],
                                instance.Bank_RPS_MWh),
                          data.rps_bank_planned_spend_mwh[p])

\* without optimized banking, a solution banks credits in a period and the
\* next period has its planned spending of 5 MWh as the previously banked
C16_Witness ==
    /\ pc = "solved"
    /\ ~data.optimize_rps_banking
    /\ \E q \in PERIODS, p \in PERIODS :
          /\ q < p
          /\ QEq(instance.Bank_RPS_MWh[q], Q(4))
          /\ QEq(data.rps_bank_planned_spend_mwh[p], Q(5))
          /\ QEq(Value(instance.Previously_Banked_RPS_MWh[p], instance.Bank_RPS_MWh), Q(5))

\* C17: when optimize_rps_banking is true, for every period p other than
\* the first, Previously_Banked_RPS_MWh[p] is Bank_RPS_MWh[q] x
\* years_in_period[q] / years_in_period[p] for the greatest period q < p.
C17_BankRescaledByYears ==
    (pc = "solved" /\ data.optimize_rps_banking)
       => \A p \in PERIODS :
             (\E q \in PERIODS : q < p)
                => QEq(Value(instance.Previously_Banked_RPS_MWh[p], instance.Bank_RPS_MWh),
                       QDiv(QMul(instance.Bank_RPS_MWh[Max({q \in PERIODS : q < p})],
                                 data.years_in_period[Max({q \in PERIODS : q < p})]),
                            data.years_in_period[p]))

\* with optimized banking and three periods, 4 MWh banked in the second
\* period of 1 year are 2 MWh of the third period of 2 years, while the
\* first period banks nothing
C17_Witness ==
    /\ pc = "solved"
    /\ data.optimize_rps_banking
    /\ Cardinality(PERIODS) = 3
    /\ \E q \in PERIODS, p \in PERIODS :
          /\ q < p
          /\ q = Max({x \in PERIODS : x < p})
          /\ q # Min(PERIODS)
          /\ QEq(instance.Bank_RPS_MWh[Min(PERIODS)], Q(0))
          /\ QEq(instance.Bank_RPS_MWh[q], Q(4))
          /\ QEq(data.years_in_period[q], Q(1))
          /\ QEq(data.years_in_period[p], Q(2))
          /\ QEq(Value(instance.Previously_Banked_RPS_MWh[p], instance.Bank_RPS_MWh), Q(2))

(***************************************************************************)
(* Ramp constraints of the dispatchable resources                          *)
(***************************************************************************)
MaxRampTimepoint == 2

\* Set(initialize=DISPATCHABLE_RESOURCES, filter=ramp_rate_fraction < 1)
DISPATCHABLE_RAMP_LIMITED_RESOURCES_init(model) ==
    {resource \in model.DISPATCHABLE_RESOURCES :
        ~QLe(Q(1), model.ramp_rate_fraction[model.technology[resource]])}

\* a rule that writes the ramp constraint whatever the ramp rate is
dispatchable_resource_ramp_up_rule_always(model, resource, timepoint) ==
    [sense |-> "<=",
     Provide_Power_MW |->
        <<<<resource, timepoint>>, <<resource, previous_timepoint[timepoint]>>>>,
     Commit_Capacity_MW |-> model.ramp_rate_fraction[model.technology[resource]],
     Start_Capacity_MW |->
        QSub(model.min_stable_level_fraction[model.technology[resource]],
             model.ramp_rate_fraction[model.technology[resource]]),
     Start_Units |-> ramp_relax]

\* The constraint Provide_Power_MW[resource, timepoint] -
\* Provide_Power_MW[resource, previous_timepoint] <= the right side, kept by
\* the pair of the Provide_Power_MW indices and the coefficients that
\* Commit_Capacity_MW, Start_Capacity_MW and Start_Units of (resource,
\* timepoint) have on the right side; Skip when the resource can ramp its
\* operable range
dispatchable_resource_ramp_up_rule(model, resource, timepoint) ==
    IF QLe(QSub(Q(1), model.min_stable_level_fraction[model.technology[resource]]),
           model.ramp_rate_fraction[model.technology[resource]])
    THEN Skip
    ELSE [sense |-> "<=",
          Provide_Power_MW |->
             <<<<resource, timepoint>>, <<resource, previous_timepoint[timepoint]>>>>,
          Commit_Capacity_MW |-> model.ramp_rate_fraction[model.technology[resource]],
          Start_Capacity_MW |->
             QSub(model.min_stable_level_fraction[model.technology[resource]],
                  model.ramp_rate_fraction[model.technology[resource]]),
          Start_Units |-> ramp_relax]

\* -(Provide_Power_MW[resource, timepoint] - Provide_Power_MW[resource,
\* previous_timepoint]) <= the right side, with the coefficients of
\* Commit_Capacity_MW, Start_Capacity_MW and Shut_Down_Units
dispatchable_resource_ramp_down_rule(model, resource, timepoint) ==
    IF QLe(QSub(Q(1), model.min_stable_level_fraction[model.technology[resource]]),
           model.ramp_rate_fraction[model.technology[resource]])
    THEN Skip
    ELSE [sense |-> "<=",
          Provide_Power_MW |->
             <<<<resource, previous_timepoint[timepoint]>>, <<resource, timepoint>>>>,
          Commit_Capacity_MW |-> model.ramp_rate_fraction[model.technology[resource]],
          Start_Capacity_MW |->
             QSub(Q(0), model.ramp_rate_fraction[model.technology[resource]]),
          Shut_Down_Units |->
             QAdd(QMul(model.unit_size_mw[model.technology[resource]],
                       model.min_stable_level_fraction[model.technology[resource]]),
                  ramp_relax)]

\* Constraint(index, rule=rule): the constraints of the indices for which the
\* rule does not return Constraint.Skip
Constraint(index, rule(_)) ==
    [i \in {j \in index : rule(j).sense # Skip.sense} |-> rule(i)]

\* two dispatchable resources of one or two technologies, of any of the ramp
\* rates and minimum stable levels, in one day of 1..MaxRampTimepoint
\* timepoints
RampData ==
    /\ \E n \in 1..MaxRampTimepoint : TIMEPOINTS = 1..n
    /\ period = [t \in TIMEPOINTS |-> 1]
    /\ day = [t \in TIMEPOINTS |-> 1]
    /\ data \in [DISPATCHABLE_RESOURCES : {{"gas_ct", "gas_st"}},
                 technology : [{"gas_ct", "gas_st"} -> {"ct", "st"}],
                 ramp_rate_fraction :
                    [{"ct", "st"} -> {<<1, 2>>, <<7, 10>>, Q(1), <<3, 2>>}],
                 min_stable_level_fraction :
                    [{"ct", "st"} -> {Q(0), <<3, 10>>, <<1, 2>>}],
                 unit_size_mw : [{"ct", "st"} -> {Q(100)}]]
    /\ prm_memberships = NotConstructed
    /\ instance = NotConstructed
    /\ CapacityNotSolved

\* create_instance constructs Dispatchable_Resource_Ramp_Up_Constraint and
\* Dispatchable_Resource_Ramp_Down_Constraint over
\* DISPATCHABLE_RAMP_LIMITED_RESOURCES x TIMEPOINTS
Construct_Ramp_Constraints ==
    /\ pc = "indexed"
    /\ instance' =
          [Dispatchable_Resource_Ramp_Up_Constraint |->
              Constraint(DISPATCHABLE_RAMP_LIMITED_RESOURCES_init(data) \X TIMEPOINTS,
                         LAMBDA i : dispatchable_resource_ramp_up_rule(data, i[1], i[2])),
           Dispatchable_Resource_Ramp_Down_Constraint |->
              Constraint(DISPATCHABLE_RAMP_LIMITED_RESOURCES_init(data) \X TIMEPOINTS,
                         LAMBDA i : dispatchable_resource_ramp_down_rule(data, i[1], i[2]))]
    /\ pc' = "created"
    /\ UNCHANGED <<timeVars, commitVars, storageParams, storageVars, dispatchParams,
                   balanceVars, reserveParams, reserveVars, data, prm_memberships,
                   capacityVars, flexVars>>

InitRamp ==
    /\ pc = "PERIODS"
    /\ RampData
    /\ IndexNotConstructed
    /\ CommitNotSolved
    /\ NoStorage
    /\ NoDispatch
    /\ NoReserves
    /\ NoFlexible

NextRamp ==
    \/ BuildIndex
    \/ Construct_Ramp_Constraints

SpecRamp == InitRamp /\ [][NextRamp]_vars

\* the resource can ramp its operable range within the timepoint
RampsOperableRange(resource) ==
    QLe(QSub(Q(1), data.min_stable_level_fraction[data.technology[resource]]),
        data.ramp_rate_fraction[data.technology[resource]])

\* C18: for every dispatchable resource with ramp_rate_fraction >= 1 -
\* min_stable_level_fraction, the instance has no ramp up and no ramp down
\* constraint of the resource in any timepoint.
C18_NoRampConstraintWhenUnconstrained ==
    pc = "created"
       => \A resource \in data.DISPATCHABLE_RESOURCES :
             RampsOperableRange(resource)
                => \A timepoint \in TIMEPOINTS :
                      /\ <<resource, timepoint>>
                            \notin DOMAIN instance.Dispatchable_Resource_Ramp_Up_Constraint
                      /\ <<resource, timepoint>>
                            \notin DOMAIN instance.Dispatchable_Resource_Ramp_Down_Constraint

\* gas_ct has a ramp rate of 7/10 and a minimum stable level of 3/10, is in
\* the ramp limited set and has no ramp constraint, while gas_st, of another
\* technology, has both constraints in both timepoints
C18_Witness ==
    /\ pc = "created"
    /\ TIMEPOINTS = 1..2
    /\ data.ramp_rate_fraction[data.technology["gas_ct"]] = <<7, 10>>
    /\ data.min_stable_level_fraction[data.technology["gas_ct"]] = <<3, 10>>
    /\ "gas_ct" \in DISPATCHABLE_RAMP_LIMITED_RESOURCES_init(data)
    /\ \A timepoint \in TIMEPOINTS :
          /\ <<"gas_ct", timepoint>>
                \notin DOMAIN instance.Dispatchable_Resource_Ramp_Up_Constraint
          /\ <<"gas_ct", timepoint>>
                \notin DOMAIN instance.Dispatchable_Resource_Ramp_Down_Constraint
          /\ <<"gas_st", timepoint>>
                \in DOMAIN instance.Dispatchable_Resource_Ramp_Up_Constraint
          /\ <<"gas_st", timepoint>>
                \in DOMAIN instance.Dispatchable_Resource_Ramp_Down_Constraint

(***************************************************************************)
(* GHG target                                                              *)
(***************************************************************************)
MaxGHGPeriod == 2

\* a rule that writes the target constraint whatever the toggle is
ghg_target_rule_always(model, current_period) ==
    [sense |-> "<=",
     lhs |-> <<<<"GHG_Resource_Emissions_tCO2_Per_Year", current_period>>,
               <<"GHG_Unspecified_Imports_tCO2_Per_Year", current_period>>>>,
     rhs |-> QAdd(model.ghg_emissions_target_tco2_per_year[current_period],
                  model.ghg_emissions_credit_tco2_per_year[current_period])]

\* The constraint is kept by the expressions that are summed on its left
\* side and the value of its right side.
ghg_target_rule(model, current_period) ==
    IF model.enforce_ghg_targets
    THEN [sense |-> "<=",
          lhs |-> <<<<"GHG_Resource_Emissions_tCO2_Per_Year", current_period>>,
                    <<"GHG_Unspecified_Imports_tCO2_Per_Year", current_period>>>>,
          rhs |-> QAdd(model.ghg_emissions_target_tco2_per_year[current_period],
                       model.ghg_emissions_credit_tco2_per_year[current_period])]
    ELSE Skip

\* one timepoint in each of the periods 1..n, a target (NonNegativeReals) and
\* a credit (Reals) of every period
GHGData ==
    /\ \E n \in 1..MaxGHGPeriod : TIMEPOINTS = 1..n
    /\ period = [t \in TIMEPOINTS |-> t]
    /\ day = [t \in TIMEPOINTS |-> 1]
    /\ data \in [enforce_ghg_targets : BOOLEAN,
                 ghg_emissions_target_tco2_per_year : [TIMEPOINTS -> {Q(0), Q(10)}],
                 ghg_emissions_credit_tco2_per_year : [TIMEPOINTS -> {Q(-5), Q(0), Q(5)}]]
    /\ prm_memberships = NotConstructed
    /\ instance = NotConstructed
    /\ CapacityNotSolved

\* create_instance constructs GHG_Target_Constraint over PERIODS
Construct_GHG_Target_Constraint ==
    /\ pc = "indexed"
    /\ instance' = [GHG_Target_Constraint |->
                       Constraint(PERIODS, LAMBDA p : ghg_target_rule(data, p))]
    /\ pc' = "created"
    /\ UNCHANGED <<timeVars, commitVars, storageParams, storageVars, dispatchParams,
                   balanceVars, reserveParams, reserveVars, data, prm_memberships,
                   capacityVars, flexVars>>

\* the emissions of the periods in the solutions of an instance: the values of
\* the two emission expressions, nonnegative, under the target constraints
\* that exist
GHGSolutions ==
    {e \in [GHG_Resource_Emissions_tCO2_Per_Year : [PERIODS -> {Q(0), Q(10), Q(20)}],
            GHG_Unspecified_Imports_tCO2_Per_Year : [PERIODS -> {Q(0), Q(5)}]] :
        \A p \in DOMAIN instance.GHG_Target_Constraint :
           QLe(QAdd(e.GHG_Resource_Emissions_tCO2_Per_Year[p],
                    e.GHG_Unspecified_Imports_tCO2_Per_Year[p]),
               instance.GHG_Target_Constraint[p].rhs)}

\* The solver returns a solution, or reports that there is none.
Solve_GHG ==
    /\ pc = "created"
    /\ IF GHGSolutions = {}
       THEN /\ pc' = "infeasible"
            /\ UNCHANGED instance
       ELSE /\ \E e \in GHGSolutions :
                  instance' =
                     [GHG_Target_Constraint |-> instance.GHG_Target_Constraint,
                      GHG_Resource_Emissions_tCO2_Per_Year |->
                         e.GHG_Resource_Emissions_tCO2_Per_Year,
                      GHG_Unspecified_Imports_tCO2_Per_Year |->
                         e.GHG_Unspecified_Imports_tCO2_Per_Year]
            /\ pc' = "solved"
    /\ UNCHANGED <<timeVars, commitVars, storageParams, storageVars, dispatchParams,
                   balanceVars, reserveParams, reserveVars, data, prm_memberships,
                   capacityVars, flexVars>>

InitGHG ==
    /\ pc = "PERIODS"
    /\ GHGData
    /\ IndexNotConstructed
    /\ CommitNotSolved
    /\ NoStorage
    /\ NoDispatch
    /\ NoReserves
    /\ NoFlexible

NextGHG ==
    \/ BuildIndex
    \/ Construct_GHG_Target_Constraint
    \/ Solve_GHG

SpecGHG == InitGHG /\ [][NextGHG]_vars

\* the emissions of the period in the solution
Emissions(p) ==
    QAdd(instance.GHG_Resource_Emissions_tCO2_Per_Year[p],
         instance.GHG_Unspecified_Imports_tCO2_Per_Year[p])

\* C19: when enforce_ghg_targets is false the instance has no GHG target
\* constraint of any period; when it is true the instance has, for every
\* period, the constraint emissions <= target + credit, which the solution
\* satisfies.
C19_TargetOnlyWhenEnforced ==
    pc \in {"created", "infeasible", "solved"}
       => /\ ~data.enforce_ghg_targets
                => DOMAIN instance.GHG_Target_Constraint = {}
          /\ data.enforce_ghg_targets
                => /\ DOMAIN instance.GHG_Target_Constraint = PERIODS
                   /\ \A p \in PERIODS :
                         /\ instance.GHG_Target_Constraint[p].sense = "<="
                         /\ QEq(instance.GHG_Target_Constraint[p].rhs,
                                QAdd(data.ghg_emissions_target_tco2_per_year[p],
                                     data.ghg_emissions_credit_tco2_per_year[p]))
                         /\ pc = "solved"
                               => QLe(Emissions(p), instance.GHG_Target_Constraint[p].rhs)

\* without enforced targets, a solution emits 25 t in a period whose target
\* and credit sum to -5 t
C19_Witness ==
    /\ pc = "solved"
    /\ ~data.enforce_ghg_targets
    /\ \E p \in PERIODS :
          /\ QEq(QAdd(data.ghg_emissions_target_tco2_per_year[p],
                      data.ghg_emissions_credit_tco2_per_year[p]), Q(-5))
          /\ QEq(Emissions(p), Q(25))

(***************************************************************************)
(* Planned capacity of the resources                                       *)
(***************************************************************************)
MaxPlannedPeriod == 2

\* RESOURCES - EV_RESOURCES - FLEXIBLE_LOAD_RESOURCES, in inputs without
\* electric vehicles
RESOURCES_WITH_MW_CAPACITY(model) ==
    model.RESOURCES \ model.FLEXIBLE_LOAD_RESOURCES

\* a validator that accepts every planned capacity
planned_installed_capacity_validate_any(model, planned_installed_capacity, resource, current_period) ==
    TRUE

planned_installed_capacity_validate(model, planned_installed_capacity, resource, current_period) ==
    IF resource \notin TX_DELIVERABILITY_RESOURCES(model)
    THEN TRUE
    ELSE QEq(planned_installed_capacity, Q(0))

\* a validation rule that admits every thermal resource
can_retire_resources_validation_rule_thermal(model, resource) ==
    resource \in model.THERMAL_RESOURCES

can_retire_resources_validation_rule(model, resource) ==
    IF resource \in (model.THERMAL_RESOURCES \ model.STORAGE_RESOURCES)
                       \ TX_DELIVERABILITY_RESOURCES(model)
    THEN TRUE
    ELSE FALSE

\* Set(initialize=RESOURCES, filter=can_retire[resource])
CAN_RETIRE_RESOURCES_init(model) ==
    {resource \in model.RESOURCES : model.can_retire[resource]}

\* a validator that bounds the minimum by the planned capacity whether the
\* resource can be retired or not
min_operational_planned_capacity_validate_bounded(model, min_operational_planned_capacity, resource, current_period) ==
    QLe(min_operational_planned_capacity,
        model.planned_installed_capacity_mw[resource, current_period])

min_operational_planned_capacity_validate(model, min_operational_planned_capacity, resource, current_period) ==
    IF resource \notin model.CAN_RETIRE_RESOURCES
    THEN QEq(min_operational_planned_capacity, Q(0))
    ELSE QLe(min_operational_planned_capacity,
             model.planned_installed_capacity_mw[resource, current_period])

\* the capacities of a resource over the periods: 0 MW in every period,
\* 50 MW in every period, 50 MW in the last period alone
PeriodCapacities ==
    {[p \in 1..MaxPlannedPeriod |-> Q(0)],
     [p \in 1..MaxPlannedPeriod |-> Q(50)],
     [p \in 1..MaxPlannedPeriod |-> IF p = MaxPlannedPeriod THEN Q(50) ELSE Q(0)]}

\* the capacities of the two resources in every period
ResourceCapacities ==
    {[i \in {"candidate", "existing"} \X (1..MaxPlannedPeriod) |->
         IF i[1] = "candidate" THEN c[1][i[2]] ELSE c[2][i[2]]] :
        c \in PeriodCapacities \X PeriodCapacities}

\* a candidate for a new build, with transmission deliverability or without,
\* and an existing hydro, firm or storage resource over the periods
\* 1..MaxPlannedPeriod; each of the two is thermal or not and can be retired
\* or not, and has a planned and a minimum operational capacity
PlannedData ==
    /\ TIMEPOINTS = 1..MaxPlannedPeriod
    /\ period = [t \in TIMEPOINTS |-> t]
    /\ day = [t \in TIMEPOINTS |-> 1]
    /\ \E candidate \in {NewSolar,
                         [NewSolar EXCEPT !.rps_eligible = FALSE, !.variable = FALSE,
                                          !.elcc_solar_bin = FALSE, !.firm_capacity = TRUE]},
          existing \in {Hydro, [Hydro EXCEPT !.firm_capacity = TRUE],
                        [Hydro EXCEPT !.storage = TRUE]},
          thermal \in SUBSET {"candidate", "existing"},
          can_retire \in [{"candidate", "existing"} -> BOOLEAN],
          planned \in ResourceCapacities,
          min_operational \in ResourceCapacities :
          data = Extend(Extend(Extend(Extend(
                    DataOf([r \in {"candidate", "existing"} |->
                               IF r = "candidate" THEN candidate ELSE existing]),
                    "THERMAL_RESOURCES", thermal),
                    "can_retire", can_retire),
                    "planned_installed_capacity_mw", planned),
                    "min_operational_planned_capacity_mw", min_operational)
    /\ prm_memberships = NotConstructed
    /\ instance = NotConstructed
    /\ CapacityNotSolved

\* create_instance constructs CAN_RETIRE_RESOURCES: a member that the
\* validation rule rejects raises an error, and no instance is returned
Construct_CAN_RETIRE_RESOURCES ==
    /\ pc = "indexed"
    /\ IF \A resource \in CAN_RETIRE_RESOURCES_init(data) :
             can_retire_resources_validation_rule(data, resource)
       THEN /\ instance' = [CAN_RETIRE_RESOURCES |-> CAN_RETIRE_RESOURCES_init(data)]
            /\ pc' = "CAN_RETIRE_RESOURCES"
       ELSE /\ pc' = "error"
            /\ instance' = NotConstructed
    /\ UNCHANGED <<timeVars, commitVars, storageParams, storageVars, dispatchParams,
                   balanceVars, reserveParams, reserveVars, data, prm_memberships,
                   capacityVars, flexVars>>

\* create_instance constructs planned_installed_capacity_mw over
\* RESOURCES_WITH_MW_CAPACITY x PERIODS: a value that the validator rejects
\* raises an error, and no instance is returned
Construct_planned_installed_capacity_mw ==
    /\ pc = "CAN_RETIRE_RESOURCES"
    /\ IF \A resource \in RESOURCES_WITH_MW_CAPACITY(data), p \in PERIODS :
             planned_installed_capacity_validate(
                data, data.planned_installed_capacity_mw[resource, p], resource, p)
       THEN /\ instance' = Extend(instance, "planned_installed_capacity_mw",
                                  data.planned_installed_capacity_mw)
            /\ pc' = "planned_installed_capacity_mw"
       ELSE /\ pc' = "error"
            /\ instance' = NotConstructed
    /\ UNCHANGED <<timeVars, commitVars, storageParams, storageVars, dispatchParams,
                   balanceVars, reserveParams, reserveVars, data, prm_memberships,
                   capacityVars, flexVars>>

\* create_instance constructs min_operational_planned_capacity_mw over
\* RESOURCES_WITH_MW_CAPACITY x PERIODS; the validator reads the
\* CAN_RETIRE_RESOURCES and the planned_installed_capacity_mw of the instance
Construct_min_operational_planned_capacity_mw ==
    /\ pc = "planned_installed_capacity_mw"
    /\ IF \A resource \in RESOURCES_WITH_MW_CAPACITY(data), p \in PERIODS :
             min_operational_planned_capacity_validate(
                instance, data.min_operational_planned_capacity_mw[resource, p],
                resource, p)
       THEN /\ instance' = Extend(instance, "min_operational_planned_capacity_mw",
                                  data.min_operational_planned_capacity_mw)
            /\ pc' = "min_operational_planned_capacity_mw"
       ELSE /\ pc' = "error"
            /\ instance' = NotConstructed
    /\ UNCHANGED <<timeVars, commitVars, storageParams, storageVars, dispatchParams,
                   balanceVars, reserveParams, reserveVars, data, prm_memberships,
                   capacityVars, flexVars>>

InitPlanned ==
    /\ pc = "PERIODS"
    /\ PlannedData
    /\ IndexNotConstructed
    /\ CommitNotSolved
    /\ NoStorage
    /\ NoDispatch
    /\ NoReserves
    /\ NoFlexible

NextPlanned ==
    \/ BuildIndex
    \/ Construct_CAN_RETIRE_RESOURCES
    \/ Construct_planned_installed_capacity_mw
    \/ Construct_min_operational_planned_capacity_mw

SpecPlanned == InitPlanned /\ [][NextPlanned]_vars

\* a resource of TX_DELIVERABILITY_RESOURCES has a planned capacity other
\* than 0 in some period
HasPlannedDeliverabilityCapacity ==
    \E resource \in TX_DELIVERABILITY_RESOURCES(data), p \in PERIODS :
       ~QEq(data.planned_installed_capacity_mw[resource, p], Q(0))

\* C20: when a resource of TX_DELIVERABILITY_RESOURCES has a planned
\* installed capacity other than 0 in some period, the construction of
\* planned_installed_capacity_mw raises an error and no instance is created.
C20_PlannedDeliverabilityCapacityFails ==
    [][(pc = "CAN_RETIRE_RESOURCES" /\ HasPlannedDeliverabilityCapacity)
          => (pc' = "error" /\ instance' = NotConstructed)]_vars

\* no resource is flagged for retirement, the candidate is a resource of
\* TX_DELIVERABILITY_RESOURCES with 50 MW planned in the last period alone,
\* and the creation has failed
C20_Witness ==
    /\ pc = "error"
    /\ instance = NotConstructed
    /\ CAN_RETIRE_RESOURCES_init(data) = {}
    /\ "candidate" \in TX_DELIVERABILITY_RESOURCES(data)
    /\ \A p \in PERIODS :
          /\ QEq(data.planned_installed_capacity_mw["existing", p], Q(0))
          /\ QEq(data.planned_installed_capacity_mw["candidate", p],
                 IF p = Max(PERIODS) THEN Q(50) ELSE Q(0))

\* C21: the creation of the instance succeeds only if, for every resource
\* and period, min_operational_planned_capacity_mw is 0 when the resource
\* cannot be retired and is at most planned_installed_capacity_mw of the
\* resource and period when it can.
C21_MinOperationalWithinPlanned ==
    pc = "min_operational_planned_capacity_mw"
       => \A resource \in RESOURCES_WITH_MW_CAPACITY(data), p \in PERIODS :
             IF data.can_retire[resource]
             THEN QLe(data.min_operational_planned_capacity_mw[resource, p],
                      data.planned_installed_capacity_mw[resource, p])
             ELSE QEq(data.min_operational_planned_capacity_mw[resource, p], Q(0))

\* the instance is created with an existing resource that can be retired and
\* keeps 50 MW of its 50 MW operational in the first period, and a candidate
\* that cannot be retired and has 50 MW planned
C21_Witness ==
    /\ pc = "min_operational_planned_capacity_mw"
    /\ instance.CAN_RETIRE_RESOURCES = {"existing"}
    /\ QEq(instance.min_operational_planned_capacity_mw["existing", 1], Q(50))
    /\ QEq(instance.planned_installed_capacity_mw["existing", 1], Q(50))
    /\ \A p \in PERIODS :
          /\ QEq(instance.planned_installed_capacity_mw["candidate", p], Q(50))
          /\ QEq(instance.min_operational_planned_capacity_mw["candidate", p], Q(0))

\* a storage resource or a resource of TX_DELIVERABILITY_RESOURCES is
\* flagged can_retire
RetiresStorageOrDeliverability ==
    \E resource \in data.STORAGE_RESOURCES \cup TX_DELIVERABILITY_RESOURCES(data) :
       data.can_retire[resource]

\* C22: the construction of CAN_RETIRE_RESOURCES raises an error when a
\* resource flagged can_retire is a storage resource or a resource of
\* TX_DELIVERABILITY_RESOURCES, and the set that is constructed holds no
\* resource of these two sets.
C22_NoStorageOrDeliverabilityRetires ==
    [][pc = "indexed"
          => /\ RetiresStorageOrDeliverability
                   => (pc' = "error" /\ instance' = NotConstructed)
             /\ pc' = "CAN_RETIRE_RESOURCES"
                   => instance'.CAN_RETIRE_RESOURCES
                         \cap (data.STORAGE_RESOURCES
                                  \cup TX_DELIVERABILITY_RESOURCES(data)) = {}]_vars

\* the existing resource is thermal, a storage resource and flagged
\* can_retire, the candidate is not flagged, and the creation has failed
C22_Witness ==
    /\ pc = "error"
    /\ instance = NotConstructed
    /\ "existing" \in data.THERMAL_RESOURCES \cap data.STORAGE_RESOURCES
    /\ CAN_RETIRE_RESOURCES_init(data) = {"existing"}

(***************************************************************************)
(* The timepoints of the start and stop tracking                           *)
(***************************************************************************)
MaxTrackingTimepoint == 4
MaxMinimumTime == 3

\* day_wrap of prestart_to_start_definition and of
\* preshut_down_to_shut_down_definition
day_wrap(timepoint, hours) ==
    IF timepoint + hours > last_timepoint_of_day[period[timepoint], day[timepoint]]
    THEN timepoints_per_day
    ELSE 0

\* PreStart_Units taken as Start_Units of the same timepoint
start_timepoint_unshifted(timepoint, hours) == timepoint

\* the timepoint of the Start_Units (Shut_Down_Units) that PreStart_Units
\* (PreShut_Down_Units) of the timepoint is
start_timepoint(timepoint, hours) ==
    timepoint + hours - day_wrap(timepoint, hours)

\* the list of the timepoints that define_starting_units and
\* define_shutting_down_units sum PreStart_Units and PreShut_Down_Units over
previous_timepoints(timepoint, hours) ==
    [pt \in 1..(hours - 1) |->
        IF timepoint - hours < first_timepoint_of_day[period[timepoint], day[timepoint]]
        THEN IF timepoint - pt >= first_timepoint_of_day[period[timepoint], day[timepoint]]
             THEN timepoint - pt
             ELSE timepoint + timepoints_per_day - pt
        ELSE timepoint - pt]

\* the elements of the list
Elements(list) == {list[i] : i \in DOMAIN list}

\* consecutively numbered timepoints of one period, the first of them on day
\* 1 and the others on day 2, and the minimum down and up time
\* (PositiveIntegers) of the technology of the dispatchable resource
TrackingData ==
    /\ \E n \in 1..MaxTrackingTimepoint, k \in 1..MaxTrackingTimepoint :
          /\ k <= n
          /\ TIMEPOINTS = 1..n
          /\ day = [t \in 1..n |-> IF t <= k THEN 1 ELSE 2]
    /\ period = [t \in TIMEPOINTS |-> 1]
    /\ data \in [min_down_time_hours : [{"ct"} -> 1..MaxMinimumTime],
                 min_up_time_hours : [{"ct"} -> 1..MaxMinimumTime]]
    /\ prm_memberships = NotConstructed
    /\ instance = NotConstructed
    /\ CapacityNotSolved

\* the four expressions over DISPATCHABLE_RESOURCES x TIMEPOINTS by the
\* timepoints they read: PreStart_Units and PreShut_Down_Units the timepoint
\* of a Start_Units and of a Shut_Down_Units, Starting_Units and
\* Shutting_Down_Units the list of the timepoints of the PreStart_Units and
\* of the PreShut_Down_Units that are summed
TrackingExpressions ==
    [PreStart_Units |->
        [i \in DISPATCHABLE_RESOURCES \X TIMEPOINTS |->
            start_timepoint(i[2], data.min_down_time_hours[technology[i[1]]])],
     PreShut_Down_Units |->
        [i \in DISPATCHABLE_RESOURCES \X TIMEPOINTS |->
            start_timepoint(i[2], data.min_up_time_hours[technology[i[1]]])],
     Starting_Units |->
        [i \in DISPATCHABLE_RESOURCES \X TIMEPOINTS |->
            previous_timepoints(i[2], data.min_down_time_hours[technology[i[1]]])],
     Shutting_Down_Units |->
        [i \in DISPATCHABLE_RESOURCES \X TIMEPOINTS |->
            previous_timepoints(i[2], data.min_up_time_hours[technology[i[1]]])]]

\* create_instance constructs the four expressions; the rule of an index
\* that reads a timepoint that is not in TIMEPOINTS raises KeyError, and no
\* instance is returned
Construct_Start_Stop_Tracking ==
    /\ pc = "indexed"
    /\ IF \A i \in DISPATCHABLE_RESOURCES \X TIMEPOINTS :
             /\ TrackingExpressions.PreStart_Units[i] \in TIMEPOINTS
             /\ TrackingExpressions.PreShut_Down_Units[i] \in TIMEPOINTS
             /\ Elements(TrackingExpressions.Starting_Units[i]) \subseteq TIMEPOINTS
             /\ Elements(TrackingExpressions.Shutting_Down_Units[i]) \subseteq TIMEPOINTS
       THEN /\ instance' = TrackingExpressions
            /\ pc' = "created"
       ELSE /\ instance' = NotConstructed
            /\ pc' = "KeyError"
    /\ UNCHANGED <<timeVars, commitVars, storageParams, storageVars, dispatchParams,
                   balanceVars, reserveParams, reserveVars, data, prm_memberships,
                   capacityVars, flexVars>>

InitTracking ==
    /\ pc = "PERIODS"
    /\ TrackingData
    /\ IndexNotConstructed
    /\ CommitNotSolved
    /\ NoStorage
    /\ NoDispatch
    /\ NoReserves
    /\ NoFlexible

NextTracking ==
    \/ BuildIndex
    \/ Construct_Start_Stop_Tracking

SpecTracking == InitTracking /\ [][NextTracking]_vars

\* the timepoints that the four tracking expressions of (resource, t) read
TrackingTimepoints(expressions, resource, t) ==
    {expressions.PreStart_Units[resource, t], expressions.PreShut_Down_Units[resource, t]}
       \cup Elements(expressions.Starting_Units[resource, t])
       \cup Elements(expressions.Shutting_Down_Units[resource, t])

\* C23: for every dispatchable resource and timepoint t, with any number of
\* timepoints in the day, every timepoint that PreStart_Units,
\* PreShut_Down_Units, Starting_Units and Shutting_Down_Units of t read is an
\* existing timepoint of the (period, day) pair of t: the expressions are
\* constructed, and they read no other timepoint.
C23_TrackingWithinDay ==
    pc \in {"created", "KeyError"}
       => /\ pc = "created"
          /\ \A resource \in DISPATCHABLE_RESOURCES, t \in TIMEPOINTS :
                TrackingTimepoints(instance, resource, t) \subseteq SameDay(t)

\* every day has timepoints_per_day timepoints, and the minimum down and up
\* times are at most a day
RegularDays ==
    /\ \A t \in TIMEPOINTS : Cardinality(SameDay(t)) = timepoints_per_day
    /\ \A g \in DOMAIN data.min_down_time_hours :
          /\ data.min_down_time_hours[g] <= timepoints_per_day
          /\ data.min_up_time_hours[g] <= timepoints_per_day

\* on days of timepoints_per_day timepoints the expressions are constructed
\* and read timepoints of the day of t alone
C23_TrackingWithinRegularDay ==
    (pc \in {"created", "KeyError"} /\ RegularDays)
       => /\ pc = "created"
          /\ \A resource \in DISPATCHABLE_RESOURCES, t \in TIMEPOINTS :
                TrackingTimepoints(instance, resource, t) \subseteq SameDay(t)

\* a day of one timepoint and a day of three, with minimum times of 1 hour:
\* the wrap by timepoints_per_day reads Start_Units of timepoint 0, which
\* does not exist
C23_KeyError ==
    /\ pc = "KeyError"
    /\ TIMEPOINTS = 1..4
    /\ Cardinality(SameDay(1)) = 1
    /\ data.min_down_time_hours["ct"] = 1
    /\ data.min_up_time_hours["ct"] = 1
    /\ start_timepoint(1, 1) = 0

\* a day of three timepoints and a day of one, with minimum times of 1 hour:
\* PreStart_Units of timepoint 4, the only timepoint of its day, is
\* Start_Units of timepoint 3, of the other day
C23_OtherDay ==
    /\ pc = "created"
    /\ TIMEPOINTS = 1..4
    /\ SameDay(4) = {4}
    /\ data.min_down_time_hours["ct"] = 1
    /\ data.min_up_time_hours["ct"] = 1
    /\ instance.PreStart_Units["gas_ct", 4] = 3
    /\ 3 \notin SameDay(4)

\* the timepoint n steps before and after t on the circle of its day
RECURSIVE PreviousTimepoint(_, _)
PreviousTimepoint(t, n) ==
    IF n = 0 THEN t ELSE previous_timepoint[PreviousTimepoint(t, n - 1)]

RECURSIVE NextTimepoint(_, _)
NextTimepoint(t, n) ==
    IF n = 0 THEN t ELSE next_timepoint[NextTimepoint(t, n - 1)]

\* the timepoints of the Start_Units that Starting_Units of (resource, t)
\* sums, in the order of the sum
StartsOfStartingUnits(resource, t) ==
    [pt \in DOMAIN instance.Starting_Units[resource, t] |->
        instance.PreStart_Units[resource, instance.Starting_Units[resource, t][pt]]]

\* two lists have the same terms, each as many times
SameTerms(a, b) ==
    \A u \in Elements(a) \cup Elements(b) :
       Cardinality({i \in DOMAIN a : a[i] = u}) = Cardinality({i \in DOMAIN b : b[i] = u})

\* C24 as stated: Starting_Units[t] is the sum of Start_Units over the
\* min_down_time_hours - 1 timepoints that circularly precede t in its day.
C24_StartingUnitsSumPreceding ==
    pc = "created"
       => \A resource \in DISPATCHABLE_RESOURCES, t \in TIMEPOINTS :
             SameTerms(StartsOfStartingUnits(resource, t),
                       [pt \in 1..(data.min_down_time_hours[technology[resource]] - 1) |->
                           PreviousTimepoint(t, pt)])

\* no lookup of Starting_Units of t wraps: the lookback stays after the first
\* timepoint of the day and the starts stay before the last
NoWrap(t, hours) ==
    /\ t - (hours - 1) >= first_timepoint_of_day[period[t], day[t]]
    /\ t + (hours - 1) <= last_timepoint_of_day[period[t], day[t]]

\* C24: Starting_Units[t] is the sum of PreStart_Units over the
\* min_down_time_hours - 1 lookback timepoints of t, and PreStart_Units[u] is
\* Start_Units min_down_time_hours after u; where no lookup wraps it is the
\* sum of Start_Units over t+1, ..., t+(min_down_time_hours-1), and on days of
\* timepoints_per_day timepoints it is the sum of Start_Units over the
\* min_down_time_hours - 1 timepoints that circularly follow t.
C24_StartingUnitsSumFollowing ==
    pc = "created"
       => \A resource \in DISPATCHABLE_RESOURCES, t \in TIMEPOINTS :
             /\ StartsOfStartingUnits(resource, t)
                   = [pt \in 1..(data.min_down_time_hours[technology[resource]] - 1) |->
                         start_timepoint(
                            previous_timepoints(
                               t, data.min_down_time_hours[technology[resource]])[pt],
                            data.min_down_time_hours[technology[resource]])]
             /\ NoWrap(t, data.min_down_time_hours[technology[resource]])
                   => StartsOfStartingUnits(resource, t)
                         = [pt \in 1..(data.min_down_time_hours[technology[resource]] - 1) |->
                               t + data.min_down_time_hours[technology[resource]] - pt]
             /\ RegularDays
                   => SameTerms(StartsOfStartingUnits(resource, t),
                                [pt \in 1..(data.min_down_time_hours[technology[resource]] - 1) |->
                                    NextTimepoint(t, pt)])

\* one day of the timepoints 1..4 and a minimum down time of 2 hours:
\* Starting_Units of timepoint 2 is PreStart_Units of timepoint 1, which is
\* Start_Units of timepoint 3, the timepoint after 2
C24_Witness ==
    /\ pc = "created"
    /\ SameDay(2) = 1..4
    /\ data.min_down_time_hours["ct"] = 2
    /\ instance.Starting_Units["gas_ct", 2] = <<1>>
    /\ instance.PreStart_Units["gas_ct", 1] = 3
    /\ StartsOfStartingUnits("gas_ct", 2) = <<3>>
    /\ previous_timepoint[2] = 1

(***************************************************************************)
(* The lookback of the hydro and transmission ramp constraints             *)
(***************************************************************************)
MaxLookbackDay == 2
MaxRampDuration == 2

\* timepoint_shift of the four ramp rules
timepoint_shift(model, timepoint, ramp_duration) ==
    IF model.hour_of_day[timepoint] - ramp_duration < 0
    THEN timepoints_per_day
    ELSE 0

\* the timepoints of the two Provide_Power_MW of the constraint
hydro_ramp_rule_lb(model, hydro_resource, timepoint, ramp_duration) ==
    <<timepoint,
      timepoint - ramp_duration + timepoint_shift(model, timepoint, ramp_duration)>>

hydro_ramp_rule_ub(model, hydro_resource, timepoint, ramp_duration) ==
    <<timepoint,
      timepoint - ramp_duration + timepoint_shift(model, timepoint, ramp_duration)>>

\* the timepoints of the two Transmit_Power_MW of the constraint
transmission_ramp_down_rule(model, line, tmp, ramp_duration) ==
    <<tmp, tmp - ramp_duration + timepoint_shift(model, tmp, ramp_duration)>>

transmission_ramp_up_rule(model, line, tmp, ramp_duration) ==
    <<tmp, tmp - ramp_duration + timepoint_shift(model, tmp, ramp_duration)>>

\* range(1, max_hydro_ramp_duration_to_constrain + 1)
hydro_ramp_durations_init(model) == 1..model.max_hydro_ramp_duration_to_constrain

\* range(1, max_intertie_ramp_duration_to_constrain + 1)
flow_ramp_durations_init(model) == 1..model.max_intertie_ramp_duration_to_constrain

\* days of timepoints_per_day consecutively numbered timepoints in one
\* period, the hours of the day numbered from 0 or from 1, the longest ramp
\* durations to constrain for the hydro resource and for the line, and the
\* toggle of the transmission ramp limits
LookbackData ==
    /\ \E n \in 1..MaxLookbackDay : TIMEPOINTS = 1..(n * timepoints_per_day)
    /\ period = [t \in TIMEPOINTS |-> 1]
    /\ day = [t \in TIMEPOINTS |-> ((t - 1) \div timepoints_per_day) + 1]
    /\ \E first_hour \in {0, 1} :
          data \in [hour_of_day :
                       {[t \in TIMEPOINTS |-> first_hour + ((t - 1) % timepoints_per_day)]},
                    max_hydro_ramp_duration_to_constrain : 0..MaxRampDuration,
                    max_intertie_ramp_duration_to_constrain : 0..MaxRampDuration,
                    transmission_ramp_limit : BOOLEAN]
    /\ prm_memberships = NotConstructed
    /\ instance = NotConstructed
    /\ CapacityNotSolved

\* the four constraints by the timepoints that their rules read; the two of
\* the lines are declared when transmission_ramp_limit is set
RampLookbacks ==
    [Hydro_Ramp_Constraint_LB |->
        [i \in {"hydro"} \X TIMEPOINTS \X hydro_ramp_durations_init(data) |->
            hydro_ramp_rule_lb(data, i[1], i[2], i[3])],
     Hydro_Ramp_Constraint_UB |->
        [i \in {"hydro"} \X TIMEPOINTS \X hydro_ramp_durations_init(data) |->
            hydro_ramp_rule_ub(data, i[1], i[2], i[3])],
     Transmission_Ramp_Down_Constraint |->
        [i \in IF data.transmission_ramp_limit
               THEN {"line"} \X TIMEPOINTS \X flow_ramp_durations_init(data)
               ELSE {} |->
            transmission_ramp_down_rule(data, i[1], i[2], i[3])],
     Transmission_Ramp_Up_Constraint |->
        [i \in IF data.transmission_ramp_limit
               THEN {"line"} \X TIMEPOINTS \X flow_ramp_durations_init(data)
               ELSE {} |->
            transmission_ramp_up_rule(data, i[1], i[2], i[3])]]

\* create_instance constructs the four constraints; a rule that reads a
\* timepoint that is not in TIMEPOINTS raises KeyError
Construct_Ramp_Lookbacks ==
    /\ pc = "indexed"
    /\ IF \A c \in DOMAIN RampLookbacks : \A i \in DOMAIN RampLookbacks[c] :
             RampLookbacks[c][i][2] \in TIMEPOINTS
       THEN /\ instance' = RampLookbacks
            /\ pc' = "created"
       ELSE /\ instance' = NotConstructed
            /\ pc' = "KeyError"
    /\ UNCHANGED <<timeVars, commitVars, storageParams, storageVars, dispatchParams,
                   balanceVars, reserveParams, reserveVars, data, prm_memberships,
                   capacityVars, flexVars>>

InitLookback ==
    /\ pc = "PERIODS"
    /\ LookbackData
    /\ IndexNotConstructed
    /\ CommitNotSolved
    /\ NoStorage
    /\ NoDispatch
    /\ NoReserves
    /\ NoFlexible

NextLookback ==
    \/ BuildIndex
    \/ Construct_Ramp_Lookbacks

SpecLookback == InitLookback /\ [][NextLookback]_vars

\* C25: for every timepoint t and ramp duration d, the lookback timepoint of
\* the hydro and the transmission ramp constraints is the existing timepoint d
\* steps circularly before t in the (period, day) pair of t, with the hours
\* of the day numbered from 0 or from 1.
C25_LookbackWithinDay ==
    pc \in {"created", "KeyError"}
       => /\ pc = "created"
          /\ \A c \in DOMAIN instance : \A i \in DOMAIN instance[c] :
                instance[c][i] = <<i[2], PreviousTimepoint(i[2], i[3])>>

\* the same with the hours of the day numbered from 0
C25_LookbackWithinDayFromHour0 ==
    (pc \in {"created", "KeyError"} /\ \E t \in TIMEPOINTS : data.hour_of_day[t] = 0)
       => /\ pc = "created"
          /\ \A c \in DOMAIN instance : \A i \in DOMAIN instance[c] :
                instance[c][i] = <<i[2], PreviousTimepoint(i[2], i[3])>>

\* two days with the hours numbered from 1 and a hydro ramp duration of 1
\* hour: the lookback of timepoint 1, hour 1 of the first day, is timepoint
\* 0, which does not exist, and the lookback of timepoint 3, hour 1 of the
\* second day, is timepoint 2, the last timepoint of the first day
C25_KeyError ==
    /\ pc = "KeyError"
    /\ 3 \in TIMEPOINTS
    /\ data.hour_of_day[1] = 1
    /\ data.hour_of_day[3] = 1
    /\ 1 \in hydro_ramp_durations_init(data)
    /\ hydro_ramp_rule_lb(data, "hydro", 1, 1) = <<1, 0>>
    /\ hydro_ramp_rule_lb(data, "hydro", 3, 1) = <<3, 2>>
    /\ day[2] # day[3]

(***************************************************************************)
(* The circle of the timepoints of a day                                   *)
(***************************************************************************)
\* previous_timepoint and next_timepoint stay within the day of the
\* timepoint, are inverse to each other, and next_timepoint goes through
\* every timepoint of the day once before it returns
CircularWithinDay ==
    /\ \A t \in TIMEPOINTS :
          /\ previous_timepoint[t] \in SameDay(t)
          /\ next_timepoint[t] \in SameDay(t)
    /\ \A t \in TIMEPOINTS :
          /\ next_timepoint[previous_timepoint[t]] = t
          /\ previous_timepoint[next_timepoint[t]] = t
          /\ {NextTimepoint(t, n) : n \in 0..(Cardinality(SameDay(t)) - 1)} = SameDay(t)
          /\ NextTimepoint(t, Cardinality(SameDay(t))) = t

\* C26: for every timepoint t and any assignment of timepoint numbers to
\* (period, day) pairs, previous_timepoint(t) and next_timepoint(t) are
\* existing timepoints of the period and day of t, each is the inverse of
\* the other, and next_timepoint applied repeatedly from t visits every
\* timepoint of the day of t exactly once before it returns to t.
C26_CircularWithinDay ==
    Indexed => CircularWithinDay

\* the timepoints of every (period, day) pair are numbered consecutively
ConsecutiveDays ==
    \A t \in TIMEPOINTS :
       SameDay(t) = Min(SameDay(t))..Max(SameDay(t))

\* the same for timepoints that are numbered consecutively within every day
C26_CircularWithinConsecutiveDay ==
    (Indexed /\ ConsecutiveDays) => CircularWithinDay

\* the timepoints 1 and 3 on one day and timepoint 2 on another: the
\* previous timepoint of 3 and the next timepoint of 1 are timepoint 2
C26_OtherDay ==
    /\ Indexed
    /\ TIMEPOINTS = 1..3
    /\ SameDay(1) = {1, 3}
    /\ previous_timepoint[3] = 2
    /\ next_timepoint[1] = 2

\* the timepoints 1 and 3 on one day and no timepoint 2: the previous
\* timepoint of 3 and the next timepoint of 1 are no timepoints
C26_NoTimepoint ==
    /\ Indexed
    /\ TIMEPOINTS = {1, 3}
    /\ SameDay(1) = {1, 3}
    /\ previous_timepoint[3] = 2
    /\ next_timepoint[1] = 2

(***************************************************************************)
(* Starts and shutdowns over a day                                         *)
(***************************************************************************)
\* the sum of a commitment variable of a resource over the day of t
DaySum(var, resource, t) ==
    LET day_values == [u \in SameDay(t) |-> var[resource, u]]
    IN QSum(day_values, SameDay(t))

(***************************************************************************)
(* C27: for every dispatchable resource and every (period, day), in every  *)
(* feasible solution the sum of Start_Units over the timepoints of the day *)
(* equals the sum of Shut_Down_Units over the same timepoints.             *)
(***************************************************************************)
C27_StartsEqualShutDownsOverDay ==
    pc = "solved" =>
        \A r \in DISPATCHABLE_RESOURCES, t \in TIMEPOINTS :
            QEq(DaySum(Start_Units, r, t), DaySum(Shut_Down_Units, r, t))

\* a solution in which units start at one timepoint of a day of three
\* timepoints and shut down at another one
C27_Witness ==
    /\ pc = "solved"
    /\ \E r \in DISPATCHABLE_RESOURCES, t \in TIMEPOINTS, u \in TIMEPOINTS :
          /\ Cardinality(SameDay(t)) = 3
          /\ u \in SameDay(t) /\ u # t
          /\ ~QLe(Start_Units[r, t], Q(0))
          /\ QEq(Shut_Down_Units[r, t], Q(0))
          /\ ~QLe(Shut_Down_Units[r, u], Q(0))
          /\ ~QLe(DaySum(Start_Units, r, t), Q(0))

(***************************************************************************)
(* Transmission flows, their directions and the hurdle cost                *)
(***************************************************************************)
MaxFlow == 1

\* An expression or the side of a constraint is kept as a linear form: the
\* coefficient of every variable that occurs in it.
NoTerms == <<>>

AddTerm(form, variable, coefficient) ==
    IF variable \in DOMAIN form
    THEN [form EXCEPT ![variable] = QAdd(@, coefficient)]
    ELSE Extend(form, variable, coefficient)

\* transmission_reserved_for_dedicated_resources after the first n pairs of
\* RESOURCE_TX_IDS
RECURSIVE transmission_reserved_for_dedicated_resources(_, _, _, _)
transmission_reserved_for_dedicated_resources(model, transmission_line, timepoint, n) ==
    IF n = 0
    THEN NoTerms
    ELSE LET reserved == transmission_reserved_for_dedicated_resources(
                             model, transmission_line, timepoint, n - 1)
             resource_line_pair == model.RESOURCE_TX_IDS[n]
             resource == model.dedicated_import_resource[resource_line_pair]
             direction == Q(model.resource_tx_direction[resource_line_pair])
             provide_power == AddTerm(reserved,
                                      <<"Provide_Power_MW", resource, timepoint>>,
                                      direction)
         IN IF transmission_line # model.tx_line_used[resource_line_pair]
            THEN reserved
            ELSE IF resource \in model.STORAGE_RESOURCES
                 THEN AddTerm(provide_power,
                              <<"Charge_Storage_MW", resource, timepoint>>,
                              QSub(Q(0), direction))
                 ELSE provide_power

define_transmit_power(model, transmission_line, timepoint) ==
    AddTerm(IF model.resource_use_tx_capacity
            THEN transmission_reserved_for_dedicated_resources(
                     model, transmission_line, timepoint, Len(model.RESOURCE_TX_IDS))
            ELSE NoTerms,
            <<"Transmit_Power_Unspecified_MW", transmission_line, timepoint>>,
            Q(1))

define_hurdle_cost_per_timepoint_positive_direction(model, line, timepoint) ==
    AddTerm(NoTerms,
            <<"Transmit_Power_Unspecified_Positive_Direction_MW", line, timepoint>>,
            model.positive_direction_hurdle_rate_per_mw[line, period[timepoint]])

define_hurdle_cost_per_timepoint_negative_direction(model, line, timepoint) ==
    AddTerm(NoTerms,
            <<"Transmit_Power_Unspecified_Negative_Direction_MW", line, timepoint>>,
            model.negative_direction_hurdle_rate_per_mw[line, period[timepoint]])

\* a rule that bounds the positive direction by the whole flow of the line
positive_direction_transmit_power_rule_whole_flow(model, line, timepoint) ==
    Relation(AddTerm(NoTerms,
                     <<"Transmit_Power_Unspecified_Positive_Direction_MW", line, timepoint>>,
                     Q(1)),
             ">=",
             define_transmit_power(model, line, timepoint))

positive_direction_transmit_power_rule(model, line, timepoint) ==
    Relation(AddTerm(NoTerms,
                     <<"Transmit_Power_Unspecified_Positive_Direction_MW", line, timepoint>>,
                     Q(1)),
             ">=",
             AddTerm(NoTerms,
                     <<"Transmit_Power_Unspecified_MW", line, timepoint>>,
                     Q(1)))

negative_direction_transmit_power_rule(model, line, timepoint) ==
    Relation(AddTerm(NoTerms,
                     <<"Transmit_Power_Unspecified_Negative_Direction_MW", line, timepoint>>,
                     Q(1)),
             ">=",
             AddTerm(NoTerms,
                     <<"Transmit_Power_Unspecified_MW", line, timepoint>>,
                     Q(-1)))

\* one timepoint, two lines, a dedicated import resource that generates and
\* one that stores, each on one of the lines in one of the two directions
TransmissionData ==
    /\ TIMEPOINTS = {1}
    /\ period = [t \in TIMEPOINTS |-> 1]
    /\ day = [t \in TIMEPOINTS |-> 1]
    /\ \E resource_use_tx_capacity \in BOOLEAN,
          tx_line_used \in [{"wind_on_line", "storage_on_line"} -> {"line_a", "line_b"}],
          resource_tx_direction \in [{"wind_on_line", "storage_on_line"} -> {-1, 1}] :
          data = [resource_use_tx_capacity |-> resource_use_tx_capacity,
                  TRANSMISSION_LINES |-> {"line_a", "line_b"},
                  STORAGE_RESOURCES |-> {"import_storage"},
                  RESOURCE_TX_IDS |-> <<"wind_on_line", "storage_on_line">>,
                  dedicated_import_resource |->
                     [id \in {"wind_on_line", "storage_on_line"} |->
                         IF id = "wind_on_line" THEN "import_wind" ELSE "import_storage"],
                  tx_line_used |-> tx_line_used,
                  resource_tx_direction |-> resource_tx_direction,
                  positive_direction_hurdle_rate_per_mw |->
                     [i \in {"line_a", "line_b"} \X {1} |-> Q(2)],
                  negative_direction_hurdle_rate_per_mw |->
                     [i \in {"line_a", "line_b"} \X {1} |-> Q(3)]]
    /\ prm_memberships = NotConstructed
    /\ instance = NotConstructed
    /\ CapacityNotSolved

\* create_instance constructs the expressions and the constraints over
\* TRANSMISSION_LINES and TIMEPOINTS
Construct_Transmission ==
    /\ pc = "indexed"
    /\ LET index == data.TRANSMISSION_LINES \X TIMEPOINTS
       IN instance' =
             [Transmit_Power_MW |->
                 [i \in index |-> define_transmit_power(data, i[1], i[2])],
              Hurdle_Cost_Per_Timepoint_Positive_Direction |->
                 [i \in index |->
                     define_hurdle_cost_per_timepoint_positive_direction(data, i[1], i[2])],
              Hurdle_Cost_Per_Timepoint_Negative_Direction |->
                 [i \in index |->
                     define_hurdle_cost_per_timepoint_negative_direction(data, i[1], i[2])],
              Transmit_Power_Positive_Direction_Constraint |->
                 [i \in index |-> positive_direction_transmit_power_rule(data, i[1], i[2])],
              Transmit_Power_Negative_Direction_Constraint |->
                 [i \in index |-> negative_direction_transmit_power_rule(data, i[1], i[2])],
              value |-> NotConstructed]
    /\ pc' = "created"
    /\ UNCHANGED <<timeVars, commitVars, storageParams, storageVars, dispatchParams,
                   balanceVars, reserveParams, reserveVars, data, prm_memberships,
                   capacityVars, flexVars>>

\* the value of a linear form under values of the variables
Evaluate(form, value) ==
    LET terms == [v \in DOMAIN form |-> QMul(form[v], value[v])]
    IN QSum(terms, DOMAIN form)

\* the values of the domain of a variable that the solver may return
FlowLevels == {Q(k) : k \in (-MaxFlow)..MaxFlow}

NonNegativeFlowLevels == {Q(k) : k \in 0..MaxFlow}

\* the values of the variables, by the Var they belong to
ValueOf(unspecified, positive, negative, provide_power, charge_storage) ==
    [v \in ({"Transmit_Power_Unspecified_MW",
             "Transmit_Power_Unspecified_Positive_Direction_MW",
             "Transmit_Power_Unspecified_Negative_Direction_MW"}
               \X data.TRANSMISSION_LINES \X TIMEPOINTS)
           \cup ({"Provide_Power_MW"} \X {"import_wind", "import_storage"} \X TIMEPOINTS)
           \cup ({"Charge_Storage_MW"} \X data.STORAGE_RESOURCES \X TIMEPOINTS)
       |-> CASE v[1] = "Transmit_Power_Unspecified_MW" -> unspecified[v[2], v[3]]
             [] v[1] = "Transmit_Power_Unspecified_Positive_Direction_MW" -> positive[v[2], v[3]]
             [] v[1] = "Transmit_Power_Unspecified_Negative_Direction_MW" -> negative[v[2], v[3]]
             [] v[1] = "Provide_Power_MW" -> provide_power[v[2], v[3]]
             [] v[1] = "Charge_Storage_MW" -> charge_storage[v[2], v[3]]]

\* the constraint holds under the values
HoldsUnder(constraint, value) ==
    QLe(Evaluate(constraint.rhs, value), Evaluate(constraint.lhs, value))

\* The solver returns values of the variables within their domains under
\* which the two direction constraints of every line and timepoint hold; the
\* dedicated import resources generate 0 or 1 MW.
Solve_Transmission ==
    /\ pc = "created"
    /\ \E unspecified \in [data.TRANSMISSION_LINES \X TIMEPOINTS -> FlowLevels],
          positive \in [data.TRANSMISSION_LINES \X TIMEPOINTS -> NonNegativeFlowLevels],
          negative \in [data.TRANSMISSION_LINES \X TIMEPOINTS -> NonNegativeFlowLevels],
          provide_power \in [{"import_wind", "import_storage"} \X TIMEPOINTS -> {Q(0), Q(1)}],
          charge_storage \in [data.STORAGE_RESOURCES \X TIMEPOINTS -> {Q(0), Q(1)}] :
          LET value == ValueOf(unspecified, positive, negative, provide_power, charge_storage)
          IN /\ \A i \in data.TRANSMISSION_LINES \X TIMEPOINTS :
                   /\ HoldsUnder(instance.Transmit_Power_Positive_Direction_Constraint[i], value)
                   /\ HoldsUnder(instance.Transmit_Power_Negative_Direction_Constraint[i], value)
             /\ instance' = [instance EXCEPT !.value = value]
    /\ pc' = "solved"
    /\ UNCHANGED <<timeVars, commitVars, storageParams, storageVars, dispatchParams,
                   balanceVars, reserveParams, reserveVars, data, prm_memberships,
                   capacityVars, flexVars>>

InitTransmission ==
    /\ pc = "PERIODS"
    /\ TransmissionData
    /\ IndexNotConstructed
    /\ CommitNotSolved
    /\ NoStorage
    /\ NoDispatch
    /\ NoReserves
    /\ NoFlexible

NextTransmission ==
    \/ BuildIndex
    \/ Construct_Transmission
    \/ Solve_Transmission

SpecTransmission == InitTransmission /\ [][NextTransmission]_vars

\* the variables of the dedicated import resources
DedicatedVariables ==
    {"Provide_Power_MW", "Charge_Storage_MW"} \X {"import_wind", "import_storage"} \X TIMEPOINTS

\* the signed flow of the dedicated import resources on the line
DedicatedFlow(line, t) ==
    LET signed == [id \in {"wind_on_line", "storage_on_line"} |->
                      IF data.resource_use_tx_capacity /\ data.tx_line_used[id] = line
                      THEN QMul(Q(data.resource_tx_direction[id]),
                                IF id = "wind_on_line"
                                THEN instance.value[<<"Provide_Power_MW", "import_wind", t>>]
                                ELSE QSub(instance.value[<<"Provide_Power_MW", "import_storage", t>>],
                                          instance.value[<<"Charge_Storage_MW", "import_storage", t>>]))
                      ELSE Q(0)]
    IN QAdd(signed["wind_on_line"], signed["storage_on_line"])

\* C28: power from dedicated import resources on a line never enters the
\* hurdle cost or the split into directions: the direction variables are
\* bounded below by the unspecified flow only (positive >= unspecified,
\* negative >= -unspecified), the hurdle cost is charged on the direction
\* variables only, and Transmit_Power is the unspecified flow plus the signed
\* dedicated flow.
C28_DedicatedImportsOutsideHurdleCost ==
    pc \in {"created", "solved"}
       => \A line \in data.TRANSMISSION_LINES, t \in TIMEPOINTS :
             LET unspecified == <<"Transmit_Power_Unspecified_MW", line, t>>
                 positive == <<"Transmit_Power_Unspecified_Positive_Direction_MW", line, t>>
                 negative == <<"Transmit_Power_Unspecified_Negative_Direction_MW", line, t>>
                 positive_constraint ==
                     instance.Transmit_Power_Positive_Direction_Constraint[line, t]
                 negative_constraint ==
                     instance.Transmit_Power_Negative_Direction_Constraint[line, t]
                 positive_cost == instance.Hurdle_Cost_Per_Timepoint_Positive_Direction[line, t]
                 negative_cost == instance.Hurdle_Cost_Per_Timepoint_Negative_Direction[line, t]
             IN /\ positive_constraint.sense = ">="
                /\ DOMAIN positive_constraint.lhs = {positive}
                /\ DOMAIN positive_constraint.rhs = {unspecified}
                /\ QEq(positive_constraint.lhs[positive], Q(1))
                /\ QEq(positive_constraint.rhs[unspecified], Q(1))
                /\ negative_constraint.sense = ">="
                /\ DOMAIN negative_constraint.lhs = {negative}
                /\ DOMAIN negative_constraint.rhs = {unspecified}
                /\ QEq(negative_constraint.lhs[negative], Q(1))
                /\ QEq(negative_constraint.rhs[unspecified], Q(-1))
                /\ DOMAIN positive_cost = {positive}
                /\ DOMAIN negative_cost = {negative}
                /\ QEq(positive_cost[positive],
                       data.positive_direction_hurdle_rate_per_mw[line, period[t]])
                /\ QEq(negative_cost[negative],
                       data.negative_direction_hurdle_rate_per_mw[line, period[t]])
                /\ pc = "solved"
                      => /\ QLe(instance.value[unspecified], instance.value[positive])
                         /\ QLe(QSub(Q(0), instance.value[unspecified]), instance.value[negative])
                         /\ QEq(Evaluate(instance.Transmit_Power_MW[line, t], instance.value),
                                QAdd(instance.value[unspecified], DedicatedFlow(line, t)))
                         /\ QEq(QAdd(Evaluate(positive_cost, instance.value),
                                     Evaluate(negative_cost, instance.value)),
                                QAdd(QMul(data.positive_direction_hurdle_rate_per_mw[line, period[t]],
                                          instance.value[positive]),
                                     QMul(data.negative_direction_hurdle_rate_per_mw[line, period[t]],
                                          instance.value[negative])))

\* a solution in which the two dedicated import resources send 2 MW over a
\* line in its positive direction, the unspecified flow of the line and its
\* two direction variables are 0, and no hurdle cost is charged
C28_Witness ==
    /\ pc = "solved"
    /\ data.resource_use_tx_capacity
    /\ \E line \in data.TRANSMISSION_LINES, t \in TIMEPOINTS :
          /\ QEq(DedicatedFlow(line, t), Q(2))
          /\ QEq(Evaluate(instance.Transmit_Power_MW[line, t], instance.value), Q(2))
          /\ QEq(instance.value[<<"Transmit_Power_Unspecified_MW", line, t>>], Q(0))
          /\ QEq(instance.value[<<"Transmit_Power_Unspecified_Positive_Direction_MW", line, t>>], Q(0))
          /\ QEq(instance.value[<<"Transmit_Power_Unspecified_Negative_Direction_MW", line, t>>], Q(0))
          /\ QEq(Evaluate(instance.Hurdle_Cost_Per_Timepoint_Positive_Direction[line, t],
                          instance.value), Q(0))

(***************************************************************************)
(* The texts True and False as values of flexible parameters               *)
(***************************************************************************)
\* the value that is bound for the model object of the row
BoundValue(d, row) == d[row.index.param][<<row.index.model_object>>]

\* the row overrides the parameter of a model object with a text
IsObjectText(row, text) ==
    /\ row.index.period = "None"
    /\ row.index.day = "None"
    /\ row.index.hour_of_day_from = "None"
    /\ row.index.hour_of_day_to = "None"
    /\ row.value = str(text)

\* C29: an override of a flexible parameter whose value is the text False
\* binds the boolean false, and one whose value is the text True binds the
\* boolean true.
C29_TextBindsItsBoolean ==
    [][\A text \in {"True", "False"} :
          (/\ pc = "rows"
           /\ IsObjectText(flexible_params[flexible_row], text))
             => /\ pc' \notin Exceptions
                /\ BoundValue(data', flexible_params[flexible_row])
                      = [type |-> "bool", text |-> text]]_vars

\* every such override binds a boolean, and the text True binds true
C29_TextTrueBindsTrue ==
    [][\A text \in {"True", "False"} :
          (/\ pc = "rows"
           /\ IsObjectText(flexible_params[flexible_row], text))
             => /\ pc' \notin Exceptions
                /\ BoundValue(data', flexible_params[flexible_row]).type = "bool"
                /\ text = "True"
                      => BoundValue(data', flexible_params[flexible_row])
                            = [type |-> "bool", text |-> "True"]]_vars

\* the table is parsed to its end, its last row overrides a parameter of the
\* zone with the text False, and the boolean true is bound
C29_FalseBindsTrue ==
    /\ pc = "parsed"
    /\ IsObjectText(flexible_params[Len(flexible_params)], "False")
    /\ BoundValue(data, flexible_params[Len(flexible_params)])
          = [type |-> "bool", text |-> "True"]

(***************************************************************************)
(* Export of the results                                                   *)
(***************************************************************************)
\* the export functions of export_results in the order of their calls, each
\* with the toggle of the instance it is called under ("" for none)
Report(name, toggle) == [name |-> name, toggle |-> toggle]

export_functions ==
    <<Report("export_loads_and_power_balance", ""),
      Report("export_resource_build", ""),
      Report("export_storage_build_variables", ""),
      Report("export_hourly_operations", ""),
      Report("export_transmission_flows", ""),
      Report("simultaneous_transmission_flow_duals", ""),
      Report("export_curtailment", ""),
      Report("export_planning_reserve_margin", ""),
      Report("export_energy_sufficiency", "energy_sufficiency"),
      Report("export_rps", ""),
      Report("export_local_capacity_resources", ""),
      Report("export_ghg", ""),
      Report("export_transmission_costs", ""),
      Report("export_transmission_build", "allow_tx_build"),
      Report("export_fuel_burn", ""),
      Report("export_ghg_imports", ""),
      Report("export_reserve_timepoints", ""),
      Report("export_ramping_duals_by_timepoint", ""),
      Report("export_hydro_daily_budget_changes", "multi_day_hydro_energy_sharing"),
      Report("export_line_limits_resource_tx_use", "resource_use_tx_capacity")>>

ExportNames == {export_functions[i].name : i \in DOMAIN export_functions}

ExportToggles ==
    {"energy_sufficiency", "allow_tx_build", "multi_day_hydro_energy_sharing",
     "resource_use_tx_capacity"}

\* a handler that exits in either mode
handle_exception_exit(message, debug) == "SystemExit"

\* the traceback is printed; in debug mode the debugger is opened on it and
\* the call returns when the debugger is left, otherwise sys.exit() is called
handle_exception(message, debug) ==
    IF debug # 0 THEN "post_mortem" ELSE "SystemExit"

\* the toggles of the instance, the debug mode export_results is called with
\* (run_scenario passes 1), and the export functions that raise an
\* exception: none, one or two of them
ExportData ==
    /\ TIMEPOINTS = {1}
    /\ period = [t \in TIMEPOINTS |-> 1]
    /\ day = [t \in TIMEPOINTS |-> 1]
    /\ \E debug_mode \in {0, 1},
          toggles \in [ExportToggles -> BOOLEAN],
          first \in ExportNames, second \in ExportNames,
          raising \in SUBSET {1, 2} :
          data = [debug_mode |-> debug_mode,
                  toggles |-> toggles,
                  raises |-> {IF i = 1 THEN first ELSE second : i \in raising}]
    /\ prm_memberships = NotConstructed
    /\ instance = NotConstructed
    /\ CapacityNotSolved

\* load_solution(instance, results)
Load_Solution ==
    /\ pc = "load_solution"
    /\ instance' = [export |-> 1, attempted |-> <<>>, written |-> {}, handled |-> <<>>]
    /\ pc' = "export"
    /\ UNCHANGED <<timeVars, commitVars, storageParams, storageVars, dispatchParams,
                   balanceVars, reserveParams, reserveVars, data, prm_memberships,
                   capacityVars, flexVars>>

\* the next try block of export_results, with the condition it is under
Export_Report ==
    /\ pc = "export"
    /\ LET report == export_functions[instance.export]
           called == report.toggle = "" \/ data.toggles[report.toggle]
           raised == called /\ report.name \in data.raises
           handled == handle_exception(report.name, data.debug_mode)
       IN /\ instance' =
                [export |-> instance.export + 1,
                 attempted |-> IF called THEN Append(instance.attempted, report.name)
                               ELSE instance.attempted,
                 written |-> IF called /\ ~raised
                             THEN instance.written \cup {report.name}
                             ELSE instance.written,
                 handled |-> IF raised THEN Append(instance.handled, report.name)
                             ELSE instance.handled]
          /\ pc' = IF raised /\ handled = "SystemExit" THEN "SystemExit"
                   ELSE IF instance.export = Len(export_functions)
                   THEN "create_summaries" ELSE "export"
    /\ UNCHANGED <<timeVars, commitVars, storageParams, storageVars, dispatchParams,
                   balanceVars, reserveParams, reserveVars, data, prm_memberships,
                   capacityVars, flexVars>>

InitExport ==
    /\ pc = "load_solution"
    /\ ExportData
    /\ IndexNotConstructed
    /\ CommitNotSolved
    /\ NoStorage
    /\ NoDispatch
    /\ NoReserves
    /\ NoFlexible

NextExport ==
    \/ Load_Solution
    \/ Export_Report

SpecExport == InitExport /\ [][NextExport]_vars

\* the export functions that the toggles of the instance call for
CalledExports ==
    {export_functions[i].name :
        i \in {j \in DOMAIN export_functions :
                  \/ export_functions[j].toggle = ""
                  \/ data.toggles[export_functions[j].toggle]}}

Attempted == {instance.attempted[i] : i \in DOMAIN instance.attempted}

\* C30: during the export of the results an exception raised by the export
\* function of one report is caught for that report alone and the export of
\* every remaining report is still attempted; a single failing export does
\* not terminate the run, whatever the debug mode.
C30_EveryExportAttempted ==
    /\ pc # "SystemExit"
    /\ pc = "create_summaries"
          => /\ Attempted = CalledExports
             /\ instance.written = CalledExports \ data.raises

\* in debug mode an exception raised by the export function of one report is
\* caught for that report alone, the export of every remaining report is
\* attempted and the run goes on; without debug mode the first export
\* function that raises ends the run, and the remaining reports are not
\* exported
C30_EveryExportAttemptedInDebugMode ==
    /\ data.debug_mode # 0
          => /\ pc # "SystemExit"
             /\ pc = "create_summaries"
                   => /\ Attempted = CalledExports
                      /\ instance.written = CalledExports \ data.raises
    /\ data.debug_mode = 0
          => /\ pc = "SystemExit"
                   => /\ Len(instance.handled) = 1
                      /\ instance.attempted[Len(instance.attempted)] = instance.handled[1]
                      /\ instance.written = Attempted \ {instance.handled[1]}
             /\ pc = "create_summaries"
                   => /\ CalledExports \cap data.raises = {}
                      /\ instance.written = CalledExports

\* in debug mode two export functions have raised, the third and the last
\* of the reports without a toggle, and all other reports are written
C30_Witness ==
    /\ pc = "create_summaries"
    /\ data.debug_mode # 0
    /\ instance.handled = <<"export_storage_build_variables",
                            "export_ramping_duals_by_timepoint">>
    /\ "export_hourly_operations" \in instance.written
    /\ Cardinality(instance.written) + 2 = Cardinality(CalledExports)

\* without debug mode the run has ended at the third report; the fourth is
\* not attempted
C30_Exit ==
    /\ pc = "SystemExit"
    /\ data.debug_mode = 0
    /\ instance.handled = <<"export_storage_build_variables">>
    /\ "export_hourly_operations" \notin Attempted

====
